---- MODULE Spec2Model ----
(***************************************************************************)
(* A model of the schedalessa cpufreq governor                             *)
(* (kernel/sched/cpufreq_schedalessa.c): the per-processor update hooks,   *)
(* the rate limiter, the frequency selector, the io-wait booster, the      *)
(* aggregation over a shared policy and the deferred apply path (irq work, *)
(* kthread worker, work mutex).                                            *)
(*                                                                         *)
(* Frequencies are in the driver's unit; times are in nanoseconds.  All    *)
(* values of the model stay far below 2^31, so the unsigned 32/64-bit      *)
(* arithmetic of the source never wraps on them.                           *)
(***************************************************************************)
EXTENDS Integers, Sequences, FiniteSets, TLC

(***************************************************************************)
(* Program constants.                                                      *)
(***************************************************************************)
UP_RATE_LIMIT_US == 500
DOWN_RATE_LIMIT_US == 20000
algov_up_rate_limit == 500
algov_down_rate_limit == 20000
NSEC_PER_USEC == 1000
\* One scheduling tick (HZ = 100).
TICK_NSEC == 10000000
\* The WALT window stale_ns is derived from.
walt_ravg_window == 20000000
\* UINT_MAX, written as the value it is congruent to modulo 2^32; no frequency
\* of the model equals it.
UINT_MAX == -1

(***************************************************************************)
(* Bounds of the model.  The clock takes the instants                      *)
(* b * period + g * GateStep with g <= MaxGate, where the period is        *)
(* CoarseStep (b <= MaxCoarse) or TickStep (b <= MaxTick).                 *)
(***************************************************************************)
MaxGate == 2
MaxCoarse == 1
MaxTick == 1
\* The number of updates a traced run records.
MaxHist == 3
\* The number of staleness windows the clock may pass at once.
MaxStale == 1

\* Clock steps: the up window, the down window, and just over a tick.
GateStep == algov_up_rate_limit * NSEC_PER_USEC
CoarseStep == algov_down_rate_limit * NSEC_PER_USEC
TickStep == TICK_NSEC + GateStep
\* ... and just over the staleness window of the aggregation.
StaleStep == walt_ravg_window + (walt_ravg_window \div 8) + GateStep

\* The processors, in for_each_cpu order.
CPUS == {0, 1, 2}
\* The frequencies the driver can produce, ascending.
FreqTable == <<300, 600, 1000>>
cpuinfo_min_freq == FreqTable[1]
cpuinfo_max_freq == FreqTable[Len(FreqTable)]
\* (utilization, capacity) pairs algov_get_util can report: util <= capacity.
UtilCap == {<<0, 1024>>, <<512, 1024>>, <<256, 512>>, <<1024, 1024>>}
\* Values the uninitialised local util of algov_update_single may hold.
Garbage == {0, 1024}
\* The update call's flags word, as the set of its bits.
FlagSets == {{}, {"DL"}, {"IOWAIT"}}

VARIABLES
  now,        \* the clock the update calls read their time argument from
  policy,     \* struct cpufreq_policy: cpus, min, max, cur, fast_switch_enabled
  tunables,   \* struct algov_tunables
  sg_policy,  \* struct algov_policy
  sg_cpu,     \* per-cpu struct algov_cpu
  idle_calls, \* tick_nohz_get_idle_calls_cpu(cpu)
  irq_work,   \* sg_policy->irq_work is pending
  work,       \* sg_policy->work is queued on the kthread worker
  worker,     \* the kthread running algov_work: its position and its local freq
  work_lock,  \* holder of sg_policy->work_lock
  limits_pc,  \* position of a running algov_limits call
  applied,    \* frequency last passed to __cpufreq_driver_target by algov_work
  last_sel,   \* (util, max) of the latest evaluation that reached get_next_freq
  decay,      \* per cpu: the boost level left by its latest update carrying
              \* the io-wait flag, and how many later calls ran its booster
  hist,       \* the updates of a traced run, in order (history only)
  gov,        \* what algov_init and algov_exit manage: governor_data, the
              \* allocations, the kthread, global_tunables, cached_tunables
  ev          \* what the latest handler did (observation only)

vars == <<now, policy, tunables, sg_policy, sg_cpu, idle_calls, irq_work, work,
          worker, work_lock, limits_pc, applied, last_sel, decay, hist, gov, ev>>

NoPair == <<>>

(***************************************************************************)
(* Rate limiter.                                                           *)
(***************************************************************************)
\* A variant that does not look at need_freq_update.
algov_should_update_freq_unforced(sgp, pol, time, can_update) ==
  IF pol.fast_switch_enabled /\ ~can_update THEN FALSE
  ELSE time - sgp.last_freq_update_time >= sgp.min_rate_limit_ns

\* A variant that starts the window at time 0.
algov_should_update_freq_from_zero(sgp, pol, time, can_update) ==
  IF pol.fast_switch_enabled /\ ~can_update THEN FALSE
  ELSE IF sgp.need_freq_update THEN TRUE
  ELSE time >= sgp.min_rate_limit_ns

algov_should_update_freq(sgp, pol, time, can_update) ==
  IF pol.fast_switch_enabled /\ ~can_update THEN FALSE
  ELSE IF sgp.need_freq_update THEN TRUE
  ELSE time - sgp.last_freq_update_time >= sgp.min_rate_limit_ns

\* A variant with the two windows exchanged.
algov_up_down_rate_limit_swapped(sgp, time, next_freq) ==
  LET delta_ns == time - sgp.last_freq_update_time IN
    IF next_freq > sgp.next_freq /\ delta_ns < sgp.down_rate_delay_ns THEN TRUE
    ELSE IF next_freq < sgp.next_freq /\ delta_ns < sgp.up_rate_delay_ns THEN TRUE
    ELSE FALSE

algov_up_down_rate_limit(sgp, time, next_freq) ==
  LET delta_ns == time - sgp.last_freq_update_time IN
    IF next_freq > sgp.next_freq /\ delta_ns < sgp.up_rate_delay_ns THEN TRUE
    ELSE IF next_freq < sgp.next_freq /\ delta_ns < sgp.down_rate_delay_ns THEN TRUE
    ELSE FALSE

\* A variant that keeps the cached raw frequency when it refuses.
algov_update_next_freq_keep_cache(sgp, time, next_freq) ==
  IF algov_up_down_rate_limit(sgp, time, next_freq)
  THEN [ret |-> FALSE, sgp |-> sgp]
  ELSE IF sgp.next_freq = next_freq
  THEN [ret |-> FALSE, sgp |-> sgp]
  ELSE LET nf == IF sgp.next_freq > next_freq
                 THEN (sgp.next_freq + next_freq) \div 2
                 ELSE next_freq
       IN [ret |-> TRUE,
           sgp |-> [sgp EXCEPT !.next_freq = nf, !.last_freq_update_time = time]]

\* A variant without the test for an unchanged frequency.
algov_update_next_freq_no_equal(sgp, time, next_freq) ==
  IF algov_up_down_rate_limit(sgp, time, next_freq)
  THEN [ret |-> FALSE, sgp |-> [sgp EXCEPT !.cached_raw_freq = 0]]
  ELSE LET nf == IF sgp.next_freq > next_freq
                 THEN (sgp.next_freq + next_freq) \div 2
                 ELSE next_freq
       IN [ret |-> TRUE,
           sgp |-> [sgp EXCEPT !.next_freq = nf, !.last_freq_update_time = time]]

\* A variant that shifts the sum by two bits instead of one.
algov_update_next_freq_shift2(sgp, time, next_freq) ==
  IF algov_up_down_rate_limit(sgp, time, next_freq)
  THEN [ret |-> FALSE, sgp |-> [sgp EXCEPT !.cached_raw_freq = 0]]
  ELSE IF sgp.next_freq = next_freq
  THEN [ret |-> FALSE, sgp |-> sgp]
  ELSE LET nf == IF sgp.next_freq > next_freq
                 THEN (sgp.next_freq + next_freq) \div 4
                 ELSE next_freq
       IN [ret |-> TRUE,
           sgp |-> [sgp EXCEPT !.next_freq = nf, !.last_freq_update_time = time]]

\* Returns the function's result and the policy data it leaves.
algov_update_next_freq(sgp, time, next_freq) ==
  IF algov_up_down_rate_limit(sgp, time, next_freq)
  THEN [ret |-> FALSE, sgp |-> [sgp EXCEPT !.cached_raw_freq = 0]]
  ELSE IF sgp.next_freq = next_freq
  THEN [ret |-> FALSE, sgp |-> sgp]
  ELSE LET nf == IF sgp.next_freq > next_freq
                 THEN (sgp.next_freq + next_freq) \div 2
                 ELSE next_freq
       IN [ret |-> TRUE,
           sgp |-> [sgp EXCEPT !.next_freq = nf, !.last_freq_update_time = time]]

\* cpufreq_driver_fast_switch is stubbed out: it always returns 0.
cpufreq_driver_fast_switch(pol, next_freq) == 0

\* Returns the policy data, the new policy->cur and whether the rate limiter
\* accepted.
algov_fast_switch(sgp, pol, time, next_freq) ==
  LET r == algov_update_next_freq(sgp, time, next_freq)
      f == cpufreq_driver_fast_switch(pol, next_freq)
  IN [sgp |-> r.sgp,
      cur |-> IF r.ret /\ f # 0 THEN f ELSE pol.cur,
      accepted |-> r.ret,
      queued |-> FALSE]

\* A variant that queues the irq work without marking the work in progress.
algov_deferred_update_unmarked(sgp, time, next_freq) ==
  LET r == algov_update_next_freq(sgp, time, next_freq) IN
    IF ~r.ret THEN [sgp |-> r.sgp, accepted |-> FALSE, queued |-> FALSE]
    ELSE IF ~r.sgp.work_in_progress
    THEN [sgp |-> r.sgp, accepted |-> TRUE, queued |-> TRUE]
    ELSE [sgp |-> r.sgp, accepted |-> TRUE, queued |-> FALSE]

\* A variant that marks the work in progress without queueing the irq work.
algov_deferred_update_unqueued(sgp, time, next_freq) ==
  LET r == algov_update_next_freq(sgp, time, next_freq) IN
    IF ~r.ret THEN [sgp |-> r.sgp, accepted |-> FALSE, queued |-> FALSE]
    ELSE IF ~r.sgp.work_in_progress
    THEN [sgp |-> [r.sgp EXCEPT !.work_in_progress = TRUE],
          accepted |-> TRUE, queued |-> FALSE]
    ELSE [sgp |-> r.sgp, accepted |-> TRUE, queued |-> FALSE]

\* Returns the policy data, whether the rate limiter accepted and whether
\* irq_work_queue was called.
algov_deferred_update(sgp, time, next_freq) ==
  LET r == algov_update_next_freq(sgp, time, next_freq) IN
    IF ~r.ret THEN [sgp |-> r.sgp, accepted |-> FALSE, queued |-> FALSE]
    ELSE IF ~r.sgp.work_in_progress
    THEN [sgp |-> [r.sgp EXCEPT !.work_in_progress = TRUE],
          accepted |-> TRUE, queued |-> TRUE]
    ELSE [sgp |-> r.sgp, accepted |-> TRUE, queued |-> FALSE]

(***************************************************************************)
(* Busy/idle classifier.  saved_idle_calls is an unsigned long; the model  *)
(* keeps idle_calls >= 1, so the decrement never wraps.                    *)
(***************************************************************************)
algov_cpu_is_busy(cpu, idle) ==
  [ret |-> idle = cpu.saved_idle_calls,
   cpu |-> [cpu EXCEPT !.saved_idle_calls = idle]]

algov_cpu_is_busy_update(cpu, idle, util) ==
  [cpu EXCEPT !.saved_idle_calls =
                 IF util <= cpu.previous_util THEN idle - 1 ELSE idle,
              !.previous_util = util]

(***************************************************************************)
(* Frequency selector.                                                     *)
(***************************************************************************)
arch_scale_freq_invariant == TRUE

map_util_freq(util, freq, cap) == ((freq + (freq \div 4)) * util) \div cap

\* No performance domain is attached (algov_policy_get_pd returns NULL), so
\* no headroom is added.
em_pd_get_higher_freq(freq, cost_margin) == freq

RECURSIVE table_lowest_at_least(_, _)
table_lowest_at_least(i, target) ==
  IF i >= Len(FreqTable) THEN FreqTable[Len(FreqTable)]
  ELSE IF FreqTable[i] >= target THEN FreqTable[i]
  ELSE table_lowest_at_least(i + 1, target)

clamp_val(v, lo, hi) == IF v < lo THEN lo ELSE IF v > hi THEN hi ELSE v

\* The lowest supported frequency at or above the target, within the policy's
\* limits (which are table frequencies).
cpufreq_driver_resolve_freq(pol, target) ==
  clamp_val(table_lowest_at_least(1, clamp_val(target, pol.min, pol.max)),
            pol.min, pol.max)

raw_freq(pol, util, max, busy) ==
  LET ref == IF arch_scale_freq_invariant THEN cpuinfo_max_freq ELSE pol.cur
      cost_margin == IF busy THEN 1024 \div 2 ELSE 0
      f1 == map_util_freq(util, ref, max)
      f2 == em_pd_get_higher_freq(f1, cost_margin)
  IN ((f2 + (f2 \div 4)) * util) \div max

\* A variant without the stability short-circuit.
get_next_freq_uncached(sgp, pol, util, max, busy) ==
  LET freq == raw_freq(pol, util, max, busy) IN
    [freq |-> cpufreq_driver_resolve_freq(pol, freq),
     sgp |-> [sgp EXCEPT !.need_freq_update = FALSE,
                         !.cached_raw_freq = freq],
     raw |-> freq, hit |-> FALSE]

\* Returns the frequency, the policy data it leaves, the raw frequency and
\* whether the stability short-circuit was taken.
get_next_freq(sgp, pol, util, max, busy) ==
  LET freq == raw_freq(pol, util, max, busy) IN
    IF freq = sgp.cached_raw_freq /\ ~sgp.need_freq_update
    THEN [freq |-> sgp.next_freq, sgp |-> sgp, raw |-> freq, hit |-> TRUE]
    ELSE [freq |-> cpufreq_driver_resolve_freq(pol, freq),
          sgp |-> [sgp EXCEPT !.need_freq_update = FALSE,
                              !.cached_raw_freq = freq],
          raw |-> freq, hit |-> FALSE]

(***************************************************************************)
(* IO-wait booster.                                                        *)
(***************************************************************************)
\* A variant that doubles the boost without clamping it.
algov_set_iowait_boost_unclamped(cpu, tun, pol, time) ==
  IF ~tun.iowait_boost_enable THEN cpu
  ELSE
    LET c1 == IF cpu.iowait_boost # 0 /\ time - cpu.last_update > TICK_NSEC
              THEN [cpu EXCEPT !.iowait_boost = 0, !.iowait_boost_pending = FALSE]
              ELSE cpu
    IN IF "IOWAIT" \notin c1.flags THEN c1
       ELSE IF c1.iowait_boost_pending THEN c1
       ELSE IF c1.iowait_boost # 0
       THEN [c1 EXCEPT !.iowait_boost_pending = TRUE,
                       !.iowait_boost = 2 * c1.iowait_boost]
       ELSE [c1 EXCEPT !.iowait_boost_pending = TRUE,
                       !.iowait_boost = pol.min]

algov_set_iowait_boost(cpu, tun, pol, time) ==
  IF ~tun.iowait_boost_enable THEN cpu
  ELSE
    LET c1 == IF cpu.iowait_boost # 0 /\ time - cpu.last_update > TICK_NSEC
              THEN [cpu EXCEPT !.iowait_boost = 0, !.iowait_boost_pending = FALSE]
              ELSE cpu
    IN IF "IOWAIT" \notin c1.flags THEN c1
       ELSE IF c1.iowait_boost_pending THEN c1
       ELSE IF c1.iowait_boost # 0
       THEN [c1 EXCEPT !.iowait_boost_pending = TRUE,
                       !.iowait_boost =
                          IF 2 * c1.iowait_boost > c1.iowait_boost_max
                          THEN c1.iowait_boost_max
                          ELSE 2 * c1.iowait_boost]
       ELSE [c1 EXCEPT !.iowait_boost_pending = TRUE,
                       !.iowait_boost = pol.min]

\* A variant that clears the boost only once halving has brought it to 0.
algov_iowait_boost_slow(cpu, pol, util, max) ==
  IF cpu.iowait_boost = 0 THEN [cpu |-> cpu, util |-> util, max |-> max]
  ELSE
    LET halved == cpu.iowait_boost \div 2
        c1 == IF cpu.iowait_boost_pending
              THEN [cpu EXCEPT !.iowait_boost_pending = FALSE]
              ELSE [cpu EXCEPT !.iowait_boost = halved]
    IN IF c1.iowait_boost = 0
       THEN [cpu |-> c1, util |-> util, max |-> max]
       ELSE IF util * c1.iowait_boost_max < max * c1.iowait_boost
       THEN [cpu |-> c1, util |-> c1.iowait_boost, max |-> c1.iowait_boost_max]
       ELSE [cpu |-> c1, util |-> util, max |-> max]

\* Returns the processor data and the (util, max) pair it leaves.
algov_iowait_boost(cpu, pol, util, max) ==
  IF cpu.iowait_boost = 0 THEN [cpu |-> cpu, util |-> util, max |-> max]
  ELSE
    LET halved == cpu.iowait_boost \div 2
        c1 == IF cpu.iowait_boost_pending
              THEN [cpu EXCEPT !.iowait_boost_pending = FALSE]
              ELSE IF halved < pol.min
              THEN [cpu EXCEPT !.iowait_boost = 0]
              ELSE [cpu EXCEPT !.iowait_boost = halved]
    IN IF c1.iowait_boost = 0
       THEN [cpu |-> c1, util |-> util, max |-> max]
       ELSE IF util * c1.iowait_boost_max < max * c1.iowait_boost
       THEN [cpu |-> c1, util |-> c1.iowait_boost, max |-> c1.iowait_boost_max]
       ELSE [cpu |-> c1, util |-> util, max |-> max]

(***************************************************************************)
(* Aggregation over a shared policy.                                       *)
(***************************************************************************)
stale_ns == walt_ravg_window + (walt_ravg_window \div 8)

\* A variant of the pass below that also takes a member whose ratio equals
\* the running one.
shared_member_nonstrict(st, j, c, time, idle) ==
  LET j_sg_cpu == st.cpus[j] IN
    IF time - j_sg_cpu.last_update > stale_ns
    THEN [st EXCEPT !.cpus[j] = [j_sg_cpu EXCEPT !.iowait_boost = 0,
                                                 !.iowait_boost_pending = FALSE]]
    ELSE IF "DL" \in j_sg_cpu.flags
    THEN [st EXCEPT !.returned = TRUE]
    ELSE
      LET b == algov_cpu_is_busy(j_sg_cpu, idle)
          take == j_sg_cpu.util * st.max >= j_sg_cpu.max * st.util
          util1 == IF take THEN j_sg_cpu.util ELSE st.util
          max1 == IF take THEN j_sg_cpu.max ELSE st.max
          w == algov_iowait_boost(b.cpu, policy, util1, max1)
      IN [st EXCEPT !.cpus[j] = w.cpu,
                    !.util = w.util,
                    !.max = w.max,
                    !.busy = st.busy \/ b.ret,
                    !.sg_cpu_util = IF j = c THEN j_sg_cpu.util
                                    ELSE st.sg_cpu_util,
                    !.boosted = st.boosted \cup {j}]

\* A variant of the pass below that skips a stale member without clearing
\* its boost.
shared_member_keep_boost(st, j, c, time, idle) ==
  LET j_sg_cpu == st.cpus[j] IN
    IF time - j_sg_cpu.last_update > stale_ns
    THEN st
    ELSE IF "DL" \in j_sg_cpu.flags
    THEN [st EXCEPT !.returned = TRUE]
    ELSE
      LET b == algov_cpu_is_busy(j_sg_cpu, idle)
          take == j_sg_cpu.util * st.max > j_sg_cpu.max * st.util
          util1 == IF take THEN j_sg_cpu.util ELSE st.util
          max1 == IF take THEN j_sg_cpu.max ELSE st.max
          w == algov_iowait_boost(b.cpu, policy, util1, max1)
      IN [st EXCEPT !.cpus[j] = w.cpu,
                    !.util = w.util,
                    !.max = w.max,
                    !.busy = st.busy \/ b.ret,
                    !.sg_cpu_util = IF j = c THEN j_sg_cpu.util
                                    ELSE st.sg_cpu_util,
                    !.boosted = st.boosted \cup {j}]

\* One pass of the for_each_cpu loop for member j, on the loop's state st:
\* the per-cpu data, the running (util, max), busy, sg_cpu_util, whether the
\* function has returned the maximum frequency, and the members whose
\* booster has run.  idle is what tick_nohz_get_idle_calls() returns on the
\* processor running the update.
shared_member(st, j, c, time, idle) ==
  LET j_sg_cpu == st.cpus[j] IN
    IF time - j_sg_cpu.last_update > stale_ns
    THEN [st EXCEPT !.cpus[j] = [j_sg_cpu EXCEPT !.iowait_boost = 0,
                                                 !.iowait_boost_pending = FALSE]]
    ELSE IF "DL" \in j_sg_cpu.flags
    THEN [st EXCEPT !.returned = TRUE]
    ELSE
      LET b == algov_cpu_is_busy(j_sg_cpu, idle)
          take == j_sg_cpu.util * st.max > j_sg_cpu.max * st.util
          util1 == IF take THEN j_sg_cpu.util ELSE st.util
          max1 == IF take THEN j_sg_cpu.max ELSE st.max
          w == algov_iowait_boost(b.cpu, policy, util1, max1)
      IN [st EXCEPT !.cpus[j] = w.cpu,
                    !.util = w.util,
                    !.max = w.max,
                    !.busy = st.busy \/ b.ret,
                    !.sg_cpu_util = IF j = c THEN j_sg_cpu.util
                                    ELSE st.sg_cpu_util,
                    !.boosted = st.boosted \cup {j}]

RECURSIVE shared_loop(_, _, _, _, _)
shared_loop(st, j, c, time, idle) ==
  IF j >= Cardinality(CPUS) \/ st.returned THEN st
  ELSE IF j \notin policy.cpus THEN shared_loop(st, j + 1, c, time, idle)
  ELSE shared_loop(shared_member(st, j, c, time, idle), j + 1, c, time, idle)

\* Returns the frequency, the per-cpu data and the policy data it leaves, the
\* pair handed to get_next_freq (NoPair when a deadline-class member ended the
\* scan), whether the short-circuit was taken and the members whose booster
\* has run.
algov_next_freq_shared(cpus, sgp, c, time, idle, idle_c) ==
  LET st == shared_loop([cpus |-> cpus, util |-> 0, max |-> 1, busy |-> FALSE,
                         sg_cpu_util |-> 0, returned |-> FALSE,
                         boosted |-> {}],
                        0, c, time, idle)
  IN IF st.returned
     THEN [freq |-> cpuinfo_max_freq, cpus |-> st.cpus, sgp |-> sgp,
           sel |-> NoPair, hit |-> FALSE, boosted |-> st.boosted,
           busy |-> st.busy]
     ELSE LET cpu1 == algov_cpu_is_busy_update(st.cpus[c], idle_c, st.sg_cpu_util)
              g == get_next_freq(sgp, policy, st.util, st.max, st.busy)
          IN [freq |-> g.freq, cpus |-> [st.cpus EXCEPT ![c] = cpu1],
              sgp |-> g.sgp, sel |-> <<st.util, st.max>>, hit |-> g.hit,
              boosted |-> st.boosted, busy |-> st.busy]

(***************************************************************************)
(* The update hooks.  Each returns what the call leaves: the per-cpu data, *)
(* the policy data, policy->cur, and what it did (whether it got past the  *)
(* gate, whether it reached get_next_freq and with which pair, the         *)
(* candidate frequency, whether the rate limiter accepted it, whether      *)
(* irq_work_queue was called and whose booster ran).                       *)
(***************************************************************************)
apply_path(sgp, time, next_f) ==
  IF policy.fast_switch_enabled
  THEN algov_fast_switch(sgp, policy, time, next_f)
  ELSE LET d == algov_deferred_update(sgp, time, next_f)
       IN [sgp |-> d.sgp, cur |-> policy.cur, accepted |-> d.accepted,
           queued |-> d.queued]

skipped(cpus) ==
  [cpus |-> cpus, sgp |-> sg_policy, cur |-> policy.cur, evaluated |-> FALSE,
   selected |-> FALSE, hit |-> FALSE, next_f |-> 0, accepted |-> FALSE,
   queued |-> FALSE, sel |-> NoPair, boosted |-> {}, busy |-> FALSE]

\* A variant of the hook below that lets a busy processor lower the
\* frequency.
algov_update_single_no_hold(c, time, flags, uc, garbage, pelt, can_update) ==
  LET cpu1 == algov_set_iowait_boost(sg_cpu[c], tunables, policy, time)
      cpu2 == [cpu1 EXCEPT !.last_update = time]
  IN IF sg_policy.work_in_progress
     THEN skipped([sg_cpu EXCEPT ![c] = cpu2])
     ELSE IF ~algov_should_update_freq(sg_policy, policy, time, can_update)
     THEN skipped([sg_cpu EXCEPT ![c] = cpu2])
     ELSE
       LET b == IF pelt THEN algov_cpu_is_busy(cpu2, idle_calls[c])
                ELSE [ret |-> FALSE, cpu |-> cpu2]
           cpu3 == algov_cpu_is_busy_update(b.cpu, idle_calls[c], garbage)
       IN IF "DL" \in flags
          THEN LET a == apply_path(sg_policy, time, cpuinfo_max_freq)
               IN [cpus |-> [sg_cpu EXCEPT ![c] = cpu3], sgp |-> a.sgp,
                   cur |-> a.cur, evaluated |-> TRUE, selected |-> FALSE,
                   hit |-> FALSE, next_f |-> cpuinfo_max_freq,
                   accepted |-> a.accepted, queued |-> a.queued,
                   sel |-> NoPair, boosted |-> {}, busy |-> b.ret]
          ELSE LET w == algov_iowait_boost(cpu3, policy, uc[1], uc[2])
                   g == get_next_freq(sg_policy, policy, w.util, w.max, b.ret)
                   hold == FALSE
                   next_f == IF hold THEN g.sgp.next_freq ELSE g.freq
                   sgp1 == IF hold THEN [g.sgp EXCEPT !.cached_raw_freq = 0]
                           ELSE g.sgp
                   a == apply_path(sgp1, time, next_f)
               IN [cpus |-> [sg_cpu EXCEPT ![c] = w.cpu], sgp |-> a.sgp,
                   cur |-> a.cur, evaluated |-> TRUE, selected |-> TRUE,
                   hit |-> g.hit, next_f |-> next_f,
                   accepted |-> a.accepted, queued |-> a.queued,
                   sel |-> <<w.util, w.max>>, boosted |-> {c},
                   busy |-> b.ret]

\* uc is what algov_get_util reports, garbage the value of the local util
\* read before its first assignment, pelt what use_pelt() returns.
algov_update_single(c, time, flags, uc, garbage, pelt, can_update) ==
  LET cpu1 == algov_set_iowait_boost(sg_cpu[c], tunables, policy, time)
      cpu2 == [cpu1 EXCEPT !.last_update = time]
  IN IF sg_policy.work_in_progress
     THEN skipped([sg_cpu EXCEPT ![c] = cpu2])
     ELSE IF ~algov_should_update_freq(sg_policy, policy, time, can_update)
     THEN skipped([sg_cpu EXCEPT ![c] = cpu2])
     ELSE
       LET b == IF pelt THEN algov_cpu_is_busy(cpu2, idle_calls[c])
                ELSE [ret |-> FALSE, cpu |-> cpu2]
           cpu3 == algov_cpu_is_busy_update(b.cpu, idle_calls[c], garbage)
       IN IF "DL" \in flags
          THEN LET a == apply_path(sg_policy, time, cpuinfo_max_freq)
               IN [cpus |-> [sg_cpu EXCEPT ![c] = cpu3], sgp |-> a.sgp,
                   cur |-> a.cur, evaluated |-> TRUE, selected |-> FALSE,
                   hit |-> FALSE, next_f |-> cpuinfo_max_freq,
                   accepted |-> a.accepted, queued |-> a.queued,
                   sel |-> NoPair, boosted |-> {}, busy |-> b.ret]
          ELSE LET w == algov_iowait_boost(cpu3, policy, uc[1], uc[2])
                   g == get_next_freq(sg_policy, policy, w.util, w.max, b.ret)
                   hold == /\ b.ret
                           /\ g.freq < g.sgp.next_freq
                           /\ g.sgp.next_freq # UINT_MAX
                   next_f == IF hold THEN g.sgp.next_freq ELSE g.freq
                   sgp1 == IF hold THEN [g.sgp EXCEPT !.cached_raw_freq = 0]
                           ELSE g.sgp
                   a == apply_path(sgp1, time, next_f)
               IN [cpus |-> [sg_cpu EXCEPT ![c] = w.cpu], sgp |-> a.sgp,
                   cur |-> a.cur, evaluated |-> TRUE, selected |-> TRUE,
                   hit |-> g.hit, next_f |-> next_f,
                   accepted |-> a.accepted, queued |-> a.queued,
                   sel |-> <<w.util, w.max>>, boosted |-> {c},
                   busy |-> b.ret]

algov_update_shared(c, time, flags, uc, can_update) ==
  LET cpu0 == [sg_cpu[c] EXCEPT !.util = uc[1], !.max = uc[2], !.flags = flags]
      cpu1 == algov_set_iowait_boost(cpu0, tunables, policy, time)
      cpu2 == [cpu1 EXCEPT !.last_update = time]
      cpus2 == [sg_cpu EXCEPT ![c] = cpu2]
  IN IF ~algov_should_update_freq(sg_policy, policy, time, can_update)
     THEN skipped(cpus2)
     ELSE IF "DL" \in flags
     THEN LET a == apply_path(sg_policy, time, cpuinfo_max_freq)
          IN [cpus |-> cpus2, sgp |-> a.sgp, cur |-> a.cur,
              evaluated |-> TRUE, selected |-> FALSE, hit |-> FALSE,
              next_f |-> cpuinfo_max_freq, accepted |-> a.accepted,
              queued |-> a.queued, sel |-> NoPair, boosted |-> {},
              busy |-> FALSE]
     ELSE LET n == algov_next_freq_shared(cpus2, sg_policy, c, time,
                                          idle_calls[c], idle_calls[c])
              a == apply_path(n.sgp, time, n.freq)
          IN [cpus |-> n.cpus, sgp |-> a.sgp, cur |-> a.cur,
              evaluated |-> TRUE, selected |-> n.sel # NoPair, hit |-> n.hit,
              next_f |-> n.freq, accepted |-> a.accepted,
              queued |-> a.queued, sel |-> n.sel, boosted |-> n.boosted,
              busy |-> n.busy]

(***************************************************************************)
(* The governor's lifecycle: algov_init and algov_exit.  The handlers work *)
(* on a record s of the fields they touch: gov, fast                       *)
(* (policy->fast_switch_enabled), tun (the tunables), sgp (the policy      *)
(* data) and ret (the value returned).  gov.held is the set of resources   *)
(* held for the policy; gov.created and gov.released list, for the latest  *)
(* call of algov_init, what it acquired and what it gave back, in order.   *)
(***************************************************************************)
EBUSY == 16
ENOMEM == 12
EINVAL == 22

\* The calls of algov_init that can fail.
InitSteps ==
  {"policy_alloc", "kthread_create", "setscheduler", "tunables_alloc",
   "kobject_add"}

\* policy->up_transition_delay_us, policy->down_transition_delay_us and
\* policy->cpuinfo.transition_latency of the driver.
DriverDelays ==
  {[up |-> 0, down |-> 0, latency |-> 0],
   [up |-> 0, down |-> 0, latency |-> 2000],
   [up |-> 1000, down |-> 4000, latency |-> 0]}

\* The written texts, as sequences of characters.
Texts == {<<"0">>, <<"1">>, <<"7", "5", "0">>, <<"x">>, <<"1", "x">>}

NoCache == [valid |-> FALSE, up_rate_limit_us |-> 0, down_rate_limit_us |-> 0]

\* kzalloc'ed structures.
ZeroTunables ==
  [up_rate_limit_us |-> 0, down_rate_limit_us |-> 0,
   iowait_boost_enable |-> FALSE]

ZeroPolicy ==
  [up_rate_delay_ns |-> 0, down_rate_delay_ns |-> 0, min_rate_limit_ns |-> 0,
   last_freq_update_time |-> 0, next_freq |-> 0, work_in_progress |-> FALSE,
   need_freq_update |-> FALSE, cached_raw_freq |-> 0]

\* The lifecycle state of a policy no governor has been initialised for.
\* per_policy is have_governor_per_policy().
GovNone(per_policy) ==
  [governor_data |-> FALSE, started |-> FALSE, held |-> {},
   thread |-> "none", global_tunables |-> FALSE, cached |-> NoCache,
   created |-> <<>>, released |-> <<>>,
   lock_held |-> FALSE, bad_unlock |-> FALSE,
   per_policy |-> per_policy]

acquire(s, x) ==
  [s EXCEPT !.gov.held = @ \cup {x}, !.gov.created = Append(@, x)]

release(s, x) ==
  [s EXCEPT !.gov.held = @ \ {x}, !.gov.released = Append(@, x)]

\* The fast switch routines are stubbed out: the macros expand to nothing,
\* and policy->fast_switch_enabled stays as the cpufreq core left it.
cpufreq_enable_fast_switch(s) == s

cpufreq_disable_fast_switch(s) == s

\* global_tunables_lock.  An unlock by a path that does not hold the mutex is
\* recorded in bad_unlock.
mutex_lock(s) == [s EXCEPT !.gov.lock_held = TRUE]

mutex_unlock(s) ==
  IF s.gov.lock_held THEN [s EXCEPT !.gov.lock_held = FALSE]
  ELSE [s EXCEPT !.gov.bad_unlock = TRUE]

algov_policy_alloc(s) == acquire([s EXCEPT !.sgp = ZeroPolicy], "sg_policy")

algov_policy_free(s) == release(s, "sg_policy")

\* fail is the call of algov_init that fails ("none" when none does).
algov_kthread_create(s, fail) ==
  IF s.fast THEN [s EXCEPT !.ret = 0]
  ELSE IF fail = "kthread_create" THEN [s EXCEPT !.ret = -ENOMEM]
  ELSE LET s1 == acquire([s EXCEPT !.gov.thread = "created"], "kthread") IN
         IF fail = "setscheduler"
         THEN [release([s1 EXCEPT !.gov.thread = "stopped"], "kthread")
                 EXCEPT !.ret = -EINVAL]
         ELSE [s1 EXCEPT !.gov.thread = "running", !.ret = 0]

\* A variant that leaves the kthread it finds running.
algov_kthread_stop_leak(s) == s

\* Stopping a kthread that was never created is recorded as "no_thread".
algov_kthread_stop(s) ==
  IF s.fast THEN s
  ELSE IF "kthread" \in s.gov.held
  THEN release([s EXCEPT !.gov.thread = "stopped"], "kthread")
  ELSE [s EXCEPT !.gov.thread = "no_thread"]

algov_tunables_alloc(s) ==
  acquire([s EXCEPT !.tun = ZeroTunables,
                    !.gov.global_tunables =
                       IF s.gov.per_policy THEN @ ELSE TRUE],
          "tunables")

algov_tunables_save(s) ==
  IF ~s.gov.per_policy THEN s
  ELSE [s EXCEPT !.gov.cached =
                    [valid |-> TRUE,
                     up_rate_limit_us |-> s.tun.up_rate_limit_us,
                     down_rate_limit_us |-> s.tun.down_rate_limit_us]]

algov_tunables_free(s) ==
  release([s EXCEPT !.gov.global_tunables =
                       IF s.gov.per_policy THEN @ ELSE FALSE],
          "tunables")

algov_tunables_restore(s) ==
  IF ~s.gov.cached.valid THEN s
  ELSE LET up == s.gov.cached.up_rate_limit_us
           down == s.gov.cached.down_rate_limit_us
       IN [s EXCEPT !.tun.up_rate_limit_us = up,
                    !.tun.down_rate_limit_us = down,
                    !.sgp.up_rate_delay_ns = up * NSEC_PER_USEC,
                    !.sgp.down_rate_delay_ns = down * NSEC_PER_USEC,
                    !.sgp.min_rate_limit_ns =
                       IF up < down THEN up * NSEC_PER_USEC
                       ELSE down * NSEC_PER_USEC]

\* A variant without the hard-coded values.
algov_init_rate_limits_from_driver(tun, drv) ==
  IF drv.up # 0 /\ drv.down # 0
  THEN [tun EXCEPT !.up_rate_limit_us = drv.up,
                   !.down_rate_limit_us = drv.down,
                   !.iowait_boost_enable = FALSE]
  ELSE LET lat == drv.latency \div NSEC_PER_USEC
           mul == IF lat # 0 THEN lat ELSE 1
       IN [tun EXCEPT !.up_rate_limit_us = UP_RATE_LIMIT_US * mul,
                      !.down_rate_limit_us = DOWN_RATE_LIMIT_US * mul,
                      !.iowait_boost_enable = FALSE]

\* The values algov_init gives the new tunables: those derived from the
\* driver's delays are overwritten by the hard-coded ones.
algov_init_rate_limits(tun, drv) ==
  LET derived == algov_init_rate_limits_from_driver(tun, drv) IN
    [derived EXCEPT !.up_rate_limit_us = algov_up_rate_limit,
                    !.down_rate_limit_us = algov_down_rate_limit,
                    !.iowait_boost_enable = FALSE]

\* The exit labels of algov_init.
init_disable_fast_switch(s, ret) ==
  [cpufreq_disable_fast_switch(s) EXCEPT !.ret = ret]

init_free_sg_policy(s, ret) ==
  init_disable_fast_switch(algov_policy_free(mutex_unlock(s)), ret)

init_stop_kthread(s, ret) ==
  init_free_sg_policy(algov_kthread_stop(s), ret)

init_fail(s, ret) ==
  init_stop_kthread(
    algov_tunables_free([release(s, "kobject")
                           EXCEPT !.gov.governor_data = FALSE]),
    ret)

algov_init(s, fail, drv) ==
  IF s.gov.governor_data THEN [s EXCEPT !.ret = -EBUSY]
  ELSE
    LET s0 == [s EXCEPT !.gov.created = <<>>, !.gov.released = <<>>,
                        !.gov.lock_held = FALSE, !.gov.bad_unlock = FALSE]
        s1 == cpufreq_enable_fast_switch(s0)
    IN IF fail = "policy_alloc" THEN init_disable_fast_switch(s1, -ENOMEM)
       ELSE
         LET k == algov_kthread_create(algov_policy_alloc(s1), fail) IN
           IF k.ret # 0 THEN init_free_sg_policy(k, k.ret)
           ELSE
             LET s3 == mutex_lock(k) IN
               IF s3.gov.global_tunables
               THEN IF s3.gov.per_policy THEN init_stop_kthread(s3, -EINVAL)
                    ELSE [mutex_unlock([s3 EXCEPT !.gov.governor_data = TRUE])
                            EXCEPT !.ret = 0]
               ELSE IF fail = "tunables_alloc"
               THEN init_stop_kthread(s3, -ENOMEM)
               ELSE
                 LET s4 == algov_tunables_alloc(s3)
                     s5 == [s4 EXCEPT !.tun = algov_init_rate_limits(@, drv),
                                      !.gov.governor_data = TRUE]
                     s6 == acquire(algov_tunables_restore(s5), "kobject")
                 IN IF fail = "kobject_add" THEN init_fail(s6, -EINVAL)
                    ELSE [mutex_unlock(s6) EXCEPT !.ret = 0]

\* gov_attr_set_put drops the only reference: the kobject goes, and the
\* tunables are saved and freed.
algov_exit(s) ==
  LET s0 == [s EXCEPT !.gov.created = <<>>, !.gov.released = <<>>,
                      !.gov.lock_held = FALSE, !.gov.bad_unlock = FALSE]
      s1 == mutex_lock(cpufreq_disable_fast_switch(s0))
      s2 == [release(s1, "kobject") EXCEPT !.gov.governor_data = FALSE]
      s3 == mutex_unlock(algov_tunables_free(algov_tunables_save(s2)))
      s4 == algov_policy_free(algov_kthread_stop(s3))
  IN [cpufreq_disable_fast_switch(s4) EXCEPT !.ret = 0]

\* The lifecycle state algov_init leaves when no call fails, started.
GovStarted(fast) ==
  [algov_init([gov |-> GovNone(FALSE), fast |-> fast,
               tun |-> ZeroTunables, sgp |-> ZeroPolicy, ret |-> 0],
              "none", [up |-> 0, down |-> 0, latency |-> 0]).gov
     EXCEPT !.started = TRUE]

(***************************************************************************)
(* The state after algov_init and algov_start.                             *)
(***************************************************************************)
InitTunables ==
  [up_rate_limit_us |-> algov_up_rate_limit,
   down_rate_limit_us |-> algov_down_rate_limit,
   iowait_boost_enable |-> FALSE]

\* A variant that takes the larger of the two delays.
update_min_rate_limit_us_max(sgp) ==
  [sgp EXCEPT !.min_rate_limit_ns =
     IF sgp.up_rate_delay_ns > sgp.down_rate_delay_ns
     THEN sgp.up_rate_delay_ns ELSE sgp.down_rate_delay_ns]

update_min_rate_limit_us(sgp) ==
  [sgp EXCEPT !.min_rate_limit_ns =
     IF sgp.up_rate_delay_ns < sgp.down_rate_delay_ns
     THEN sgp.up_rate_delay_ns ELSE sgp.down_rate_delay_ns]

\* A variant that leaves the delays at zero.
algov_start_policy_no_delays(tun) ==
  [up_rate_delay_ns |-> 0,
   down_rate_delay_ns |-> 0,
   min_rate_limit_ns |-> 0,
   last_freq_update_time |-> 0,
   next_freq |-> 0,
   work_in_progress |-> FALSE,
   need_freq_update |-> FALSE,
   cached_raw_freq |-> 0]

\* The policy data algov_start leaves.
algov_start_policy(tun) ==
  update_min_rate_limit_us(
    [up_rate_delay_ns |-> tun.up_rate_limit_us * NSEC_PER_USEC,
     down_rate_delay_ns |-> tun.down_rate_limit_us * NSEC_PER_USEC,
     min_rate_limit_ns |-> 0,
     last_freq_update_time |-> 0,
     next_freq |-> 0,
     work_in_progress |-> FALSE,
     need_freq_update |-> FALSE,
     cached_raw_freq |-> 0])

\* The per-cpu data algov_start leaves.
algov_start_cpu ==
  [iowait_boost_pending |-> FALSE, iowait_boost |-> 0,
   iowait_boost_max |-> cpuinfo_max_freq, last_update |-> 0,
   util |-> 0, max |-> 0, flags |-> {"DL"},
   saved_idle_calls |-> 0, previous_util |-> 0]

\* What the latest handler did: which one, for which processor, with which
\* flags, what cpufreq_this_cpu_can_update returned, whether an update got
\* past the gate, what it took the busy classifier to say, whether it
\* reached get_next_freq and took its short-circuit, the frequency it asked the rate limiter for, and which
\* way the rate limiter let next_freq change.
EvNone ==
  [op |-> "none", cpu |-> 0, flags |-> {}, can_update |-> TRUE,
   evaluated |-> FALSE, busy |-> FALSE,
   selected |-> FALSE, hit |-> FALSE, next_f |-> 0, change |-> "none"]

NoDecay == [level |-> 0, n |-> 0]

\* cpusets: the policies' processor sets; fast: the values of
\* fast_switch_enabled; mins: the values of policy->min.
InitWith(cpusets, fast, mins) ==
  /\ now = 0
  /\ policy \in {[cpus |-> cs, min |-> m, max |-> cpuinfo_max_freq,
                  cur |-> m, fast_switch_enabled |-> f,
                  up_transition_delay_us |-> 0,
                  down_transition_delay_us |-> 0,
                  transition_latency |-> 0] :
                 cs \in cpusets, f \in fast, m \in mins}
  /\ tunables = InitTunables
  /\ sg_policy = algov_start_policy(InitTunables)
  /\ sg_cpu = [c \in CPUS |-> algov_start_cpu]
  /\ idle_calls = [c \in CPUS |-> 1]
  /\ irq_work = FALSE
  /\ work = FALSE
  /\ worker = [pc |-> "idle", freq |-> 0]
  /\ work_lock = "none"
  /\ limits_pc = "idle"
  /\ applied = 0
  /\ last_sel = NoPair
  /\ decay = [c \in CPUS |-> NoDecay]
  /\ hist = <<>>
  /\ gov = GovStarted(policy.fast_switch_enabled)
  /\ ev = EvNone

(***************************************************************************)
(* Actions.                                                                *)
(***************************************************************************)
policy_is_shared == Cardinality(policy.cpus) > 1
CanUpdate == IF policy.fast_switch_enabled THEN BOOLEAN ELSE {TRUE}

\* What an update by c with these flags and result r leaves in decay[j].
Decayed(j, c, flags, r) ==
  IF j = c /\ "IOWAIT" \in flags
  THEN [level |-> r.cpus[j].iowait_boost, n |-> 0]
  ELSE IF j \in r.boosted /\ sg_cpu[j].iowait_boost # 0
  THEN [decay[j] EXCEPT !.n = @ + 1]
  ELSE decay[j]

\* The effect of an update hook whose result is r; can_update is what
\* cpufreq_this_cpu_can_update returns.
Updated(c, flags, can_update, r) ==
  /\ sg_cpu' = r.cpus
  /\ sg_policy' = r.sgp
  /\ policy' = [policy EXCEPT !.cur = r.cur]
  /\ irq_work' = (irq_work \/ r.queued)
  /\ last_sel' = IF r.selected THEN r.sel ELSE last_sel
  /\ decay' = [j \in CPUS |-> Decayed(j, c, flags, r)]
  /\ ev' = [op |-> "update", cpu |-> c, flags |-> flags,
            can_update |-> can_update, evaluated |-> r.evaluated,
            busy |-> r.busy, selected |-> r.selected, hit |-> r.hit,
            next_f |-> r.next_f,
            change |-> IF ~r.accepted THEN "none"
                       ELSE IF r.sgp.next_freq > sg_policy.next_freq
                       THEN "raise" ELSE "lower"]
  /\ UNCHANGED <<now, tunables, idle_calls, work, worker, work_lock, limits_pc,
                 applied, gov>>

\* Whether an update by c at this instant gets past the early returns; the
\* inputs read only after them are enumerated only then.
Evaluates(can_update) ==
  /\ policy_is_shared \/ ~sg_policy.work_in_progress
  /\ algov_should_update_freq(sg_policy, policy, now, can_update)

\* FS: the flags and UC: the (util, capacity) pairs the update calls are
\* drawn from.
UpdateSingleWith(FS, UC) ==
  /\ ~policy_is_shared
  /\ \E c \in policy.cpus, flags \in FS, can_update \in CanUpdate :
       IF Evaluates(can_update)
       THEN \E uc \in (IF "DL" \in flags THEN {<<0, 1024>>} ELSE UC),
               garbage \in Garbage, pelt \in BOOLEAN :
              Updated(c, flags, can_update,
                      algov_update_single(c, now, flags, uc, garbage, pelt,
                                          can_update))
       ELSE Updated(c, flags, can_update,
                    algov_update_single(c, now, flags, <<0, 1024>>, 0, FALSE,
                                        can_update))
  /\ UNCHANGED hist

\* FS and UC give them per processor.
UpdateSharedWith(FS, UC) ==
  /\ policy_is_shared
  /\ \E c \in policy.cpus, can_update \in CanUpdate :
       \E flags \in FS[c], uc \in UC[c] :
         Updated(c, flags, can_update,
                 algov_update_shared(c, now, flags, uc, can_update))
  /\ UNCHANGED hist

\* algov_irq_work: hand the work to the kthread worker.
IrqWork ==
  /\ irq_work
  /\ irq_work' = FALSE
  /\ work' = TRUE
  /\ ev' = EvNone
  /\ UNCHANGED <<now, policy, tunables, sg_policy, sg_cpu, idle_calls, worker,
                 work_lock, limits_pc, applied, last_sel, decay, hist, gov>>

\* algov_work, first part: the worker takes the work and, in one critical
\* section of update_lock, reads next_freq and clears work_in_progress.
WorkRead ==
  /\ work
  /\ worker.pc = "idle"
  /\ work' = FALSE
  /\ worker' = [pc |-> "mutex", freq |-> sg_policy.next_freq]
  /\ sg_policy' = [sg_policy EXCEPT !.work_in_progress = FALSE]
  /\ ev' = EvNone
  /\ UNCHANGED <<now, policy, tunables, sg_cpu, idle_calls, irq_work, work_lock,
                 limits_pc, applied, last_sel, decay, hist, gov>>

\* algov_work: mutex_lock(&sg_policy->work_lock).
WorkLock ==
  /\ worker.pc = "mutex"
  /\ work_lock = "none"
  /\ work_lock' = "worker"
  /\ worker' = [worker EXCEPT !.pc = "target"]
  /\ ev' = EvNone
  /\ UNCHANGED <<now, policy, tunables, sg_policy, sg_cpu, idle_calls, irq_work,
                 work, limits_pc, applied, last_sel, decay, hist, gov>>

\* algov_work: __cpufreq_driver_target returns and the mutex is released.
WorkTarget ==
  /\ worker.pc = "target"
  /\ applied' = worker.freq
  /\ policy' = [policy EXCEPT !.cur = cpufreq_driver_resolve_freq(policy, worker.freq)]
  /\ work_lock' = "none"
  /\ worker' = [worker EXCEPT !.pc = "idle"]
  /\ ev' = EvNone
  /\ UNCHANGED <<now, tunables, sg_policy, sg_cpu, idle_calls, irq_work, work,
                 limits_pc, last_sel, decay, hist, gov>>

\* A variant that does not wait for the work mutex.
LimitsLock_unlocked ==
  /\ ~policy.fast_switch_enabled
  /\ limits_pc = "idle"
  /\ work_lock' = "limits"
  /\ limits_pc' = "apply"
  /\ ev' = EvNone
  /\ UNCHANGED <<now, policy, tunables, sg_policy, sg_cpu, idle_calls, irq_work,
                 work, worker, applied, last_sel, decay, hist, gov>>

\* algov_limits without fast switch: mutex_lock(&sg_policy->work_lock).
LimitsLock ==
  /\ ~policy.fast_switch_enabled
  /\ limits_pc = "idle"
  /\ work_lock = "none"
  /\ work_lock' = "limits"
  /\ limits_pc' = "apply"
  /\ ev' = EvNone
  /\ UNCHANGED <<now, policy, tunables, sg_policy, sg_cpu, idle_calls, irq_work,
                 work, worker, applied, last_sel, decay, hist, gov>>

\* algov_limits: cpufreq_policy_apply_limits returns, the mutex is released
\* and need_freq_update is set.
LimitsApply ==
  /\ limits_pc = "apply"
  /\ policy' = [policy EXCEPT !.cur = clamp_val(policy.cur, policy.min, policy.max)]
  /\ work_lock' = "none"
  /\ limits_pc' = "idle"
  /\ sg_policy' = [sg_policy EXCEPT !.need_freq_update = TRUE]
  /\ ev' = [EvNone EXCEPT !.op = "limits"]
  /\ UNCHANGED <<now, tunables, sg_cpu, idle_calls, irq_work, work, worker,
                 applied, last_sel, decay, hist, gov>>

\* algov_work as one step: the critical section, then the driver call under
\* the work mutex.
Work ==
  /\ work
  /\ worker.pc = "idle"
  /\ work_lock = "none"
  /\ work' = FALSE
  /\ sg_policy' = [sg_policy EXCEPT !.work_in_progress = FALSE]
  /\ worker' = [pc |-> "idle", freq |-> sg_policy.next_freq]
  /\ applied' = sg_policy.next_freq
  /\ policy' = [policy EXCEPT
                  !.cur = cpufreq_driver_resolve_freq(policy, sg_policy.next_freq)]
  /\ ev' = EvNone
  /\ UNCHANGED <<now, tunables, sg_cpu, idle_calls, irq_work, work_lock,
                 limits_pc, last_sel, decay, hist, gov>>

\* algov_limits as one step.
Limits ==
  /\ limits_pc = "idle"
  /\ policy.fast_switch_enabled \/ work_lock = "none"
  /\ policy' = [policy EXCEPT
                  !.cur = IF policy.fast_switch_enabled THEN policy.cur
                          ELSE clamp_val(policy.cur, policy.min, policy.max)]
  /\ sg_policy' = [sg_policy EXCEPT !.need_freq_update = TRUE]
  /\ ev' = [EvNone EXCEPT !.op = "limits"]
  /\ UNCHANGED <<now, tunables, sg_cpu, idle_calls, irq_work, work, worker,
                 work_lock, limits_pc, applied, last_sel, decay, hist, gov>>

\* kstrtobool on the first character of the written text.
kstrtobool(buf) ==
  IF buf \in {"1", "y", "Y"} THEN [err |-> FALSE, val |-> TRUE]
  ELSE IF buf \in {"0", "n", "N"} THEN [err |-> FALSE, val |-> FALSE]
  ELSE [err |-> TRUE, val |-> FALSE]

\* A variant that stores the value without looking at the error.
iowait_boost_enable_store_unchecked(tun, buf) ==
  [tun EXCEPT !.iowait_boost_enable = kstrtobool(buf).val]

iowait_boost_enable_store(tun, buf) ==
  IF kstrtobool(buf).err THEN tun
  ELSE [tun EXCEPT !.iowait_boost_enable = kstrtobool(buf).val]

(***************************************************************************)
(* The sysfs stores.  A store gets the written text and its length count.  *)
(***************************************************************************)
Digits == <<"0", "1", "2", "3", "4", "5", "6", "7", "8", "9">>
IsDigit(ch) == \E i \in 1..Len(Digits) : Digits[i] = ch
DigitVal(ch) == (CHOOSE i \in 1..Len(Digits) : Digits[i] = ch) - 1

RECURSIVE parse_digits(_, _, _)
parse_digits(text, i, acc) ==
  IF i > Len(text) THEN [err |-> FALSE, val |-> acc]
  ELSE IF ~IsDigit(text[i]) THEN [err |-> TRUE, val |-> 0]
  ELSE parse_digits(text, i + 1, acc * 10 + DigitVal(text[i]))

\* kstrtouint in base 10 on texts of a few digits.
kstrtouint(text) ==
  IF Len(text) = 0 THEN [err |-> TRUE, val |-> 0]
  ELSE parse_digits(text, 1, 0)

\* A variant that runs the statements after the return.
up_rate_limit_us_store_parsed(tun, sgp, text) ==
  LET k == kstrtouint(text) IN
    IF k.err THEN [ret |-> -EINVAL, tun |-> tun, sgp |-> sgp]
    ELSE [ret |-> Len(text),
          tun |-> [tun EXCEPT !.up_rate_limit_us = k.val],
          sgp |-> update_min_rate_limit_us(
                    [sgp EXCEPT !.up_rate_delay_ns = k.val * NSEC_PER_USEC])]

\* Returns count at once; the statements after the return never run.
up_rate_limit_us_store(tun, sgp, text) ==
  [ret |-> Len(text), tun |-> tun, sgp |-> sgp]

down_rate_limit_us_store(tun, sgp, text) ==
  [ret |-> Len(text), tun |-> tun, sgp |-> sgp]

\* The value iowait_boost_enable_store returns.
iowait_boost_enable_store_ret(buf, count) ==
  IF kstrtobool(buf).err THEN -EINVAL ELSE count

BoostEnableStore ==
  /\ \E buf \in {"0", "1", "x"} :
       /\ tunables' = iowait_boost_enable_store(tunables, buf)
       /\ ev' = EvNone
  /\ UNCHANGED <<now, policy, sg_policy, sg_cpu, idle_calls, irq_work, work,
                 worker, work_lock, limits_pc, applied, last_sel, decay,
                 hist, gov>>

\* The sysfs files exist while the tunables' kobject does.
UpRateLimitStore ==
  /\ "kobject" \in gov.held
  /\ \E text \in Texts :
       LET r == up_rate_limit_us_store(tunables, sg_policy, text) IN
         /\ tunables' = r.tun
         /\ sg_policy' = r.sgp
         /\ ev' = [op |-> "store", attr |-> "up_rate_limit_us",
                   text |-> text, ret |-> r.ret]
  /\ UNCHANGED <<now, policy, sg_cpu, idle_calls, irq_work, work, worker,
                 work_lock, limits_pc, applied, last_sel, decay, hist, gov>>

DownRateLimitStore ==
  /\ "kobject" \in gov.held
  /\ \E text \in Texts :
       LET r == down_rate_limit_us_store(tunables, sg_policy, text) IN
         /\ tunables' = r.tun
         /\ sg_policy' = r.sgp
         /\ ev' = [op |-> "store", attr |-> "down_rate_limit_us",
                   text |-> text, ret |-> r.ret]
  /\ UNCHANGED <<now, policy, sg_cpu, idle_calls, irq_work, work, worker,
                 work_lock, limits_pc, applied, last_sel, decay, hist, gov>>

IowaitBoostEnableStore ==
  /\ "kobject" \in gov.held
  /\ \E text \in Texts :
       /\ tunables' = iowait_boost_enable_store(tunables, text[1])
       /\ ev' = [op |-> "store", attr |-> "iowait_boost_enable",
                 text |-> text,
                 ret |-> iowait_boost_enable_store_ret(text[1], Len(text))]
  /\ UNCHANGED <<now, policy, sg_policy, sg_cpu, idle_calls, irq_work, work,
                 worker, work_lock, limits_pc, applied, last_sel, decay,
                 hist, gov>>

\* The fields of the state the lifecycle handlers work on.
LifeState ==
  [gov |-> gov, fast |-> policy.fast_switch_enabled, tun |-> tunables,
   sgp |-> sg_policy, ret |-> 0]

\* algov_init; fail is the call that fails, if it is reached.
GovInit ==
  /\ ~gov.started
  /\ \E fail \in InitSteps \cup {"none"} :
       LET s == algov_init(LifeState, fail,
                           [up |-> policy.up_transition_delay_us,
                            down |-> policy.down_transition_delay_us,
                            latency |-> policy.transition_latency])
       IN /\ gov' = s.gov
          /\ policy' = [policy EXCEPT !.fast_switch_enabled = s.fast]
          /\ tunables' = s.tun
          /\ sg_policy' = s.sgp
          /\ ev' = [op |-> "init", fail |-> fail, ret |-> s.ret]
  /\ UNCHANGED <<now, sg_cpu, idle_calls, irq_work, work, worker, work_lock,
                 limits_pc, applied, last_sel, decay, hist>>

\* algov_start.
GovStart ==
  /\ gov.governor_data /\ ~gov.started
  /\ sg_policy' = algov_start_policy(tunables)
  /\ sg_cpu' = [c \in CPUS |-> IF c \in policy.cpus THEN algov_start_cpu
                               ELSE sg_cpu[c]]
  /\ gov' = [gov EXCEPT !.started = TRUE]
  /\ ev' = [op |-> "start", ret |-> 0]
  /\ UNCHANGED <<now, policy, tunables, idle_calls, irq_work, work, worker,
                 work_lock, limits_pc, applied, last_sel, decay, hist>>

\* algov_stop: the hooks are removed; without fast switch the irq work is
\* synchronised and the kthread work cancelled.
GovStop ==
  /\ gov.started
  /\ worker.pc = "idle"
  /\ gov' = [gov EXCEPT !.started = FALSE]
  /\ irq_work' = (policy.fast_switch_enabled /\ irq_work)
  /\ work' = (policy.fast_switch_enabled /\ work)
  /\ ev' = [op |-> "stop", ret |-> 0]
  /\ UNCHANGED <<now, policy, tunables, sg_policy, sg_cpu, idle_calls, worker,
                 work_lock, limits_pc, applied, last_sel, decay, hist>>

\* algov_exit.
GovExit ==
  /\ gov.governor_data /\ ~gov.started
  /\ LET s == algov_exit(LifeState) IN
       /\ gov' = s.gov
       /\ policy' = [policy EXCEPT !.fast_switch_enabled = s.fast]
       /\ tunables' = s.tun
       /\ sg_policy' = s.sgp
       /\ ev' = [op |-> "exit", ret |-> s.ret]
  /\ UNCHANGED <<now, sg_cpu, idle_calls, irq_work, work, worker, work_lock,
                 limits_pc, applied, last_sel, decay, hist>>

\* The instants and the (utilization, capacity) pairs of the traced run.
ScenarioTimes == <<0, 100000, 100050>>
ScenarioUtilCap == {<<100, 1024>>, <<800, 1024>>}

\* algov_update_single on a single-cpu policy, recorded in hist: the time,
\* the pair algov_get_util would report, next_freq after the call, whether
\* the rate limiter accepted and whether irq_work_queue was called.
UpdateTraced ==
  /\ ~policy_is_shared
  /\ Len(hist) < MaxHist
  /\ \E c \in policy.cpus, can_update \in CanUpdate, uc \in ScenarioUtilCap,
        garbage \in Garbage, pelt \in BOOLEAN :
       LET r == algov_update_single(c, now, {}, uc, garbage, pelt, can_update)
       IN /\ Updated(c, {}, can_update, r)
          /\ hist' = Append(hist, [time |-> now, util |-> uc[1],
                                   max |-> uc[2],
                                   next_freq |-> r.sgp.next_freq,
                                   accepted |-> r.accepted,
                                   queued |-> r.queued])

\* The clock moves to the next instant of the traced run.
AdvanceScenario ==
  /\ \E i \in 1..(Len(ScenarioTimes) - 1) :
       /\ now = ScenarioTimes[i]
       /\ now' = ScenarioTimes[i + 1]
  /\ ev' = EvNone
  /\ UNCHANGED <<policy, tunables, sg_policy, sg_cpu, idle_calls, irq_work, work,
                 worker, work_lock, limits_pc, applied, last_sel, decay,
                 hist, gov>>

\* The environment: time passes, by the up window within a period ...
AdvanceGate(period) ==
  /\ (now % period) \div GateStep < MaxGate
  /\ now' = now + GateStep
  /\ ev' = EvNone
  /\ UNCHANGED <<policy, tunables, sg_policy, sg_cpu, idle_calls, irq_work, work,
                 worker, work_lock, limits_pc, applied, last_sel, decay,
                 hist, gov>>

\* ... by the down window ...
AdvanceCoarse ==
  /\ now \div CoarseStep < MaxCoarse
  /\ now' = now + CoarseStep
  /\ ev' = EvNone
  /\ UNCHANGED <<policy, tunables, sg_policy, sg_cpu, idle_calls, irq_work, work,
                 worker, work_lock, limits_pc, applied, last_sel, decay,
                 hist, gov>>

\* ... or by just over a tick.
AdvanceTick ==
  /\ now \div TickStep < MaxTick
  /\ now' = now + TickStep
  /\ ev' = EvNone
  /\ UNCHANGED <<policy, tunables, sg_policy, sg_cpu, idle_calls, irq_work, work,
                 worker, work_lock, limits_pc, applied, last_sel, decay,
                 hist, gov>>

\* ... or by just over the staleness window.
AdvanceStale ==
  /\ now \div StaleStep < MaxStale
  /\ now' = now + StaleStep
  /\ ev' = EvNone
  /\ UNCHANGED <<policy, tunables, sg_policy, sg_cpu, idle_calls, irq_work, work,
                 worker, work_lock, limits_pc, applied, last_sel, decay,
                 hist, gov>>

(***************************************************************************)
(* Specifications.                                                         *)
(***************************************************************************)
\* Rate limiting and frequency selection: a single-cpu or a two-cpu policy in
\* deferred mode, the worker as one step, limits changes.
SharedFlags == [c \in CPUS |-> IF c = 0 THEN {{}, {"DL"}} ELSE {{}}]
SharedUtilCap ==
  [c \in CPUS |-> IF c = 0 THEN {<<0, 1024>>} ELSE {<<512, 1024>>}]

UpdateSingle == UpdateSingleWith(FlagSets, UtilCap)
UpdateShared == UpdateSharedWith(SharedFlags, SharedUtilCap)

Init == InitWith({{0}, {0, 1}}, {FALSE}, {cpuinfo_min_freq})

Next ==
  \/ UpdateSingle
  \/ UpdateShared
  \/ IrqWork
  \/ Work
  \/ Limits
  \/ AdvanceGate(CoarseStep)
  \/ AdvanceCoarse

Spec == Init /\ [][Next]_vars

\* The io-wait booster and the aggregation on a two-cpu policy: processor 0
\* reports io-wait and the enable tunable is written at run time.  The
\* updates do not wait for the worker, which is left out.
BoostFlags == [c \in CPUS |-> IF c = 0 THEN {{}, {"IOWAIT"}} ELSE {{}}]
BoostUtilCap ==
  [c \in CPUS |-> IF c = 0 THEN {<<0, 1024>>, <<512, 1024>>}
                  ELSE {<<256, 512>>}]

UpdateBoost == UpdateSharedWith(BoostFlags, BoostUtilCap)

InitBoost == InitWith({{0, 1}}, {FALSE}, {cpuinfo_min_freq})

NextBoost ==
  \/ UpdateBoost
  \/ BoostEnableStore
  \/ AdvanceGate(TickStep)
  \/ AdvanceTick

SpecBoost == InitBoost /\ [][NextBoost]_vars

\* The aggregation on a two-cpu policy whose processors both report io-wait,
\* within the first down window.
AggFlags == [c \in CPUS |-> {{}, {"IOWAIT"}}]

UpdateAgg == UpdateSharedWith(AggFlags, BoostUtilCap)

NextAgg ==
  \/ UpdateAgg
  \/ BoostEnableStore
  \/ AdvanceGate(CoarseStep)

SpecAgg == InitBoost /\ [][NextAgg]_vars

\* The deferred apply path step by step on a two-cpu policy: the worker and
\* a limits change contend for the work mutex while updates go on.
WorkerFlags == [c \in CPUS |-> {{}}]
WorkerUtilCap ==
  [c \in CPUS |-> IF c = 0 THEN {<<0, 1024>>}
                  ELSE {<<0, 1024>>, <<1024, 1024>>}]

UpdateWorker == UpdateSharedWith(WorkerFlags, WorkerUtilCap)

NextWorker ==
  \/ UpdateWorker
  \/ IrqWork
  \/ WorkRead
  \/ WorkLock
  \/ WorkTarget
  \/ LimitsLock
  \/ LimitsApply
  \/ AdvanceGate(CoarseStep)

SpecWorker == InitBoost /\ [][NextWorker]_vars

\* The same with the scheduling the apply path relies on: a raised irq work
\* runs, the kthread worker runs its work through to the driver call, a
\* caller of algov_limits that holds the work mutex releases it, and the
\* mutex, which hands over to its waiters in turn, is not taken from under
\* the waiting worker for ever.
SpecWorkerFair ==
  /\ SpecWorker
  /\ WF_vars(IrqWork)
  /\ WF_vars(WorkRead)
  /\ SF_vars(WorkLock)
  /\ WF_vars(WorkTarget)
  /\ WF_vars(LimitsApply)

\* The lifecycle of a two-cpu policy, from before algov_init: init with a
\* failing call or none, start, stop, exit, and writes to the three sysfs
\* files.
ZeroCpu ==
  [iowait_boost_pending |-> FALSE, iowait_boost |-> 0, iowait_boost_max |-> 0,
   last_update |-> 0, util |-> 0, max |-> 0, flags |-> {},
   saved_idle_calls |-> 0, previous_util |-> 0]

InitLife ==
  /\ now = 0
  /\ policy \in {[cpus |-> {0, 1}, min |-> cpuinfo_min_freq,
                  max |-> cpuinfo_max_freq, cur |-> cpuinfo_min_freq,
                  fast_switch_enabled |-> f,
                  up_transition_delay_us |-> d.up,
                  down_transition_delay_us |-> d.down,
                  transition_latency |-> d.latency] :
                 d \in DriverDelays, f \in BOOLEAN}
  /\ tunables = ZeroTunables
  /\ sg_policy = ZeroPolicy
  /\ sg_cpu = [c \in CPUS |-> ZeroCpu]
  /\ idle_calls = [c \in CPUS |-> 1]
  /\ irq_work = FALSE
  /\ work = FALSE
  /\ worker = [pc |-> "idle", freq |-> 0]
  /\ work_lock = "none"
  /\ limits_pc = "idle"
  /\ applied = 0
  /\ last_sel = NoPair
  /\ decay = [c \in CPUS |-> NoDecay]
  /\ hist = <<>>
  /\ gov \in {GovNone(pp) : pp \in BOOLEAN}
  /\ ev = EvNone

NextLife ==
  \/ GovInit
  \/ GovStart
  \/ GovStop
  \/ GovExit
  \/ UpRateLimitStore
  \/ DownRateLimitStore
  \/ IowaitBoostEnableStore

SpecLife == InitLife /\ [][NextLife]_vars

\* A freshly started single-cpu policy, in fast or deferred mode, whose first
\* updates are recorded: at the instants of the traced run and up-window
\* steps after them.
InitScenario == InitWith({{0}}, BOOLEAN, {cpuinfo_min_freq})

NextScenario ==
  \/ UpdateTraced
  \/ AdvanceScenario
  \/ AdvanceGate(CoarseStep)

SpecScenario == InitScenario /\ [][NextScenario]_vars

\* The gate in fast and in deferred mode: the policies and inputs of Spec,
\* with fast switch enabled or not, within the first down window.
InitGate == InitWith({{0}, {0, 1}}, BOOLEAN, {cpuinfo_min_freq})

NextGate ==
  \/ UpdateSingle
  \/ UpdateShared
  \/ IrqWork
  \/ Work
  \/ Limits
  \/ AdvanceGate(CoarseStep)

SpecGate == InitGate /\ [][NextGate]_vars

\* The io-wait booster on a single-cpu and on a two-cpu policy, with the
\* enable tunable written at run time.
InitIowait == InitWith({{0}, {0, 1}}, {FALSE}, {cpuinfo_min_freq})

NextIowait ==
  \/ UpdateSingle
  \/ UpdateBoost
  \/ BoostEnableStore
  \/ AdvanceGate(TickStep)
  \/ AdvanceTick

SpecIowait == InitIowait /\ [][NextIowait]_vars

\* The aggregation on a three-cpu policy whose members go stale, over the
\* first updates of the policy: processor 0 reports plain updates, processor
\* 1 deadline-class ones, processor 2 io-wait ones, and the clock may pass the
\* staleness window at once.
StaleFlags ==
  [c \in CPUS |-> IF c = 0 THEN {{}}
                  ELSE IF c = 1 THEN {{"DL"}}
                  ELSE {{"IOWAIT"}}]
StaleUtilCap ==
  [c \in CPUS |-> IF c = 0 THEN {<<512, 1024>>}
                  ELSE IF c = 1 THEN {<<0, 1024>>}
                  ELSE {<<256, 512>>}]

\* An update of a run that records when each of its first updates was made.
UpdateStale ==
  /\ policy_is_shared
  /\ Len(hist) < MaxHist
  /\ \E c \in policy.cpus, can_update \in CanUpdate :
       \E flags \in StaleFlags[c], uc \in StaleUtilCap[c] :
         /\ Updated(c, flags, can_update,
                    algov_update_shared(c, now, flags, uc, can_update))
         /\ hist' = Append(hist, [time |-> now])

InitStale == InitWith({{0, 1, 2}}, {FALSE}, {cpuinfo_min_freq})

NextStale ==
  \/ UpdateStale
  \/ BoostEnableStore
  \/ AdvanceGate(StaleStep)
  \/ AdvanceStale

SpecStale == InitStale /\ [][NextStale]_vars

(***************************************************************************)
(* Properties.                                                             *)
(***************************************************************************)
IsUpdate(e) == e.op = "update"
SinceLastChange == now - sg_policy.last_freq_update_time
InRange(f) == cpuinfo_min_freq <= f /\ f <= cpuinfo_max_freq
TableFreqs == {FreqTable[i] : i \in 1..Len(FreqTable)}

\* C1: a step that raises next_freq is taken at least up_rate_delay_ns after
\* the previous change (or after start), one that lowers it at least
\* down_rate_delay_ns after it, and the step's time becomes the time of the
\* last change.
C1_RateLimited ==
  [][/\ sg_policy'.next_freq > sg_policy.next_freq
          => SinceLastChange >= sg_policy.up_rate_delay_ns
     /\ sg_policy'.next_freq < sg_policy.next_freq
          => SinceLastChange >= sg_policy.down_rate_delay_ns
     /\ sg_policy'.next_freq # sg_policy.next_freq
          => sg_policy'.last_freq_update_time = now]_vars

\* C1, its case: an update has just lowered next_freq.
C1_Witness == IsUpdate(ev) /\ ev.change = "lower"

\* C2 as stated: after every update carrying the deadline-class flag,
\* next_freq is the maximum frequency and the work is in progress.
C2_AsStated ==
  IsUpdate(ev) /\ "DL" \in ev.flags
    => sg_policy.next_freq = cpuinfo_max_freq /\ sg_policy.work_in_progress

\* C2 amended: an update carrying the deadline-class flag is subject to the
\* early returns (work in progress on a single-cpu policy, the should-update
\* gate) and to the up window.  Past them it requests the maximum frequency
\* without evaluating utilization: next_freq becomes the maximum, the time of
\* the last change the update's time, the work is marked in progress and the
\* irq work is queued unless the work was in progress already.  Otherwise,
\* and when next_freq is the maximum already, none of them changes.
C2_Deadline ==
  [][IsUpdate(ev') /\ "DL" \in ev'.flags =>
       LET passes == /\ policy_is_shared \/ ~sg_policy.work_in_progress
                     /\ \/ sg_policy.need_freq_update
                        \/ SinceLastChange >= sg_policy.min_rate_limit_ns
           changes == /\ passes
                      /\ sg_policy.next_freq # cpuinfo_max_freq
                      /\ SinceLastChange >= sg_policy.up_rate_delay_ns
       IN /\ ev'.evaluated = passes
          /\ ~ev'.selected
          /\ IF changes
             THEN /\ sg_policy'.next_freq = cpuinfo_max_freq
                  /\ sg_policy'.last_freq_update_time = now
                  /\ sg_policy'.work_in_progress
                  /\ irq_work' = (irq_work \/ ~sg_policy.work_in_progress)
             ELSE /\ sg_policy'.next_freq = sg_policy.next_freq
                  /\ sg_policy'.last_freq_update_time
                       = sg_policy.last_freq_update_time
                  /\ sg_policy'.work_in_progress = sg_policy.work_in_progress
                  /\ irq_work' = irq_work]_vars

\* C2, its case: a deadline-class update got past the gate and the rate
\* limiter turned its request down.
C2_Witness ==
  /\ IsUpdate(ev) /\ "DL" \in ev.flags /\ ev.evaluated
  /\ ev.change = "none"
  /\ sg_policy.next_freq < cpuinfo_max_freq

\* C3 as stated: an evaluation of the pair the previous evaluation had, with
\* no forced refresh, changes next_freq no more.
C3_AsStated ==
  [][/\ IsUpdate(ev') /\ ev'.selected
     /\ last_sel' = last_sel
     /\ ~sg_policy.need_freq_update
     => ev'.change = "none"]_vars

\* C3 amended: an evaluation that finds the raw frequency equal to the cached
\* one with need_freq_update clear changes nothing of the policy data and
\* queues no irq work; an evaluation of the pair the previous evaluation had
\* is such an evaluation as long as the cache still holds that pair's raw
\* frequency (a refusal by the rate limiter or a busy hold resets the cache)
\* and need_freq_update is clear.
C3_Cached ==
  [][/\ IsUpdate(ev') /\ ev'.hit
          => /\ sg_policy' = sg_policy
             /\ irq_work' = irq_work
             /\ policy' = policy
     /\ (/\ IsUpdate(ev') /\ ev'.selected
         /\ last_sel' = last_sel
         /\ ~sg_policy.need_freq_update
         /\ sg_policy.cached_raw_freq
              = raw_freq(policy, last_sel[1], last_sel[2], FALSE))
          => ev'.hit]_vars

\* C3, its case: the short-circuit was taken on a repeated pair while
\* next_freq is not what the pair resolves to.
C3_Witness ==
  /\ IsUpdate(ev) /\ ev.hit
  /\ last_sel # NoPair
  /\ sg_policy.last_freq_update_time > 0
  /\ sg_policy.next_freq
       # cpufreq_driver_resolve_freq(
           policy, raw_freq(policy, last_sel[1], last_sel[2], FALSE))

C5_OneActuation ==
  /\ ~(worker.pc = "target" /\ limits_pc = "apply")
  /\ worker.pc = "target" <=> work_lock = "worker"
  /\ limits_pc = "apply" <=> work_lock = "limits"

\* C5, its case: the worker waits for the mutex while the limits are being
\* re-applied.
C5_Witness == worker.pc = "mutex" /\ limits_pc = "apply"

\* The least k with seed * 2^k >= level, and the greatest k with
\* seed * 2^k <= level (for level >= seed > 0).
RECURSIVE CeilLog2(_, _)
CeilLog2(level, seed) ==
  IF level <= seed THEN 0 ELSE 1 + CeilLog2(level, 2 * seed)
RECURSIVE FloorLog2(_, _)
FloorLog2(level, seed) ==
  IF level < 2 * seed THEN 0 ELSE 1 + FloorLog2(level, 2 * seed)

\* C6 as stated: after as many evaluations as the binary logarithm of
\* level / seed, rounded up (and at least one), the boost is zero.
C6_AsStated ==
  \A c \in CPUS :
    /\ decay[c].n >= 1
    /\ decay[c].n >= CeilLog2(decay[c].level, policy.min)
    => sg_cpu[c].iowait_boost = 0

\* C6 amended: a step other than the processor's own update carrying the
\* io-wait flag never increases its boost, and the boost is zero after at
\* most floor(log2(level / seed)) + 2 later calls that run the processor's
\* booster: the first may only consume the pending mark, each later one
\* halves the boost, and a boost below the seed is cleared.
C6_Decay ==
  /\ [](\A c \in CPUS :
          sg_cpu[c].iowait_boost # 0
            => /\ decay[c].level >= policy.min
               /\ decay[c].n <= FloorLog2(decay[c].level, policy.min) + 1)
  /\ [][\A c \in CPUS :
          ~(IsUpdate(ev') /\ ev'.cpu = c /\ "IOWAIT" \in ev'.flags)
            => sg_cpu'[c].iowait_boost <= sg_cpu[c].iowait_boost]_vars

\* C6, its case: the boost was at its maximum at the last flagged update and
\* is still not zero after floor(log2(level / seed)) + 1 later evaluations.
C6_Witness ==
  \E c \in CPUS :
    /\ decay[c].level = sg_cpu[c].iowait_boost_max
    /\ decay[c].n = FloorLog2(decay[c].level, policy.min) + 1
    /\ sg_cpu[c].iowait_boost # 0

\* Whether the ratio of pair p is below that of pair q.
RatioLess(p, q) == p[1] * q[2] < q[1] * p[2]

\* The first pair of the sequence whose ratio no other exceeds.
FirstMax(seq) ==
  seq[CHOOSE i \in 1..Len(seq) :
        /\ \A k \in 1..Len(seq) : ~RatioLess(seq[i], seq[k])
        /\ \A k \in 1..(i - 1) : RatioLess(seq[k], seq[i])]

\* The members' pairs in scan order.
RECURSIVE MemberPairs(_, _)
MemberPairs(cpus, j) ==
  IF j >= Cardinality(CPUS) THEN <<>>
  ELSE IF j \notin policy.cpus THEN MemberPairs(cpus, j + 1)
  ELSE <<(<<cpus[j].util, cpus[j].max>>)>> \o MemberPairs(cpus, j + 1)

\* The members' pairs in scan order, each followed by the member's boost pair
\* when its boost is not zero.
RECURSIVE MemberAndBoostPairs(_, _)
MemberAndBoostPairs(cpus, j) ==
  IF j >= Cardinality(CPUS) THEN <<>>
  ELSE IF j \notin policy.cpus THEN MemberAndBoostPairs(cpus, j + 1)
  ELSE <<(<<cpus[j].util, cpus[j].max>>)>>
       \o (IF cpus[j].iowait_boost # 0
           THEN <<(<<cpus[j].iowait_boost, cpus[j].iowait_boost_max>>)>>
           ELSE <<>>)
       \o MemberAndBoostPairs(cpus, j + 1)

NoStale(cpus) ==
  \A j \in policy.cpus : now - cpus[j].last_update <= stale_ns
NoDeadline(cpus) ==
  \A j \in policy.cpus : "DL" \notin cpus[j].flags

\* C7 as stated: while iowait_boost_enable is false, the pair an update
\* carrying the io-wait flag hands to the selector is the observed one, the
\* first of maximum ratio among the members' pairs.
C7_AsStated ==
  [][/\ IsUpdate(ev') /\ "IOWAIT" \in ev'.flags /\ ev'.selected
     /\ policy_is_shared
     /\ ~tunables.iowait_boost_enable
     => last_sel' = FirstMax(<<(<<0, 1>>)>> \o MemberPairs(sg_cpu', 0))]_vars

\* C7, its case: with iowait_boost_enable false, an update carrying the
\* io-wait flag reached the selector while a boost was left.
C7_Witness ==
  /\ IsUpdate(ev) /\ "IOWAIT" \in ev.flags /\ ev.selected
  /\ ~tunables.iowait_boost_enable
  /\ sg_cpu[ev.cpu].iowait_boost # 0

\* The pair of the first member of maximum ratio, replaced by that member's
\* boost pair when the boost pair's ratio is higher.
OwnBoostOnly(cpus) ==
  LET s == CHOOSE j \in policy.cpus :
             /\ \A k \in policy.cpus :
                  ~RatioLess(<<cpus[j].util, cpus[j].max>>,
                             <<cpus[k].util, cpus[k].max>>)
             /\ \A k \in policy.cpus :
                  k < j => RatioLess(<<cpus[k].util, cpus[k].max>>,
                                     <<cpus[j].util, cpus[j].max>>)
      own == <<cpus[s].util, cpus[s].max>>
      boost == <<cpus[s].iowait_boost, cpus[s].iowait_boost_max>>
  IN IF cpus[s].iowait_boost # 0 /\ RatioLess(own, boost) THEN boost ELSE own

C9_BoostBounded ==
  \A c \in CPUS : sg_cpu[c].iowait_boost <= sg_cpu[c].iowait_boost_max

\* C9, its case: doubling has taken a boost to iowait_boost_max, short of
\* twice its previous value.
C9_Witness ==
  \E c \in CPUS :
    /\ sg_cpu[c].iowait_boost = sg_cpu[c].iowait_boost_max
    /\ sg_cpu[c].iowait_boost_max % policy.min # 0

\* C10: once a change of next_freq has been accepted, next_freq lies between
\* the driver's minimum and maximum frequency, and so does every frequency
\* the worker has passed to the driver.
C10_InRange ==
  /\ sg_policy.last_freq_update_time > 0 => InRange(sg_policy.next_freq)
  /\ applied # 0 => InRange(applied)

\* C10, its case: the worker has passed on a next_freq that is the mean of
\* two frequencies and no frequency of the table.
C10_Witness ==
  /\ sg_policy.last_freq_update_time > 0
  /\ applied = sg_policy.next_freq
  /\ applied \notin TableFreqs

IsStore(e) == e.op = "store"
RateLimitAttrs == {"up_rate_limit_us", "down_rate_limit_us"}

\* Whether the handler of the attribute fails to parse the text.
Malformed(attr, text) ==
  IF attr \in RateLimitAttrs THEN kstrtouint(text).err
  ELSE kstrtobool(text[1]).err

\* C11: a write to up_rate_limit_us or down_rate_limit_us, whatever the text,
\* returns the count and changes neither the tunables nor the policy's
\* up_rate_delay_ns, down_rate_delay_ns and min_rate_limit_ns; and whenever
\* the tunables exist the windows are 500 us and 20000 us, whatever the
\* driver's transition delays and latency, and so are the delays of the
\* started policy.
C11_Pinned ==
  /\ [](/\ "tunables" \in gov.held
             => /\ tunables.up_rate_limit_us = 500
                /\ tunables.down_rate_limit_us = 20000
        /\ gov.started
             => /\ sg_policy.up_rate_delay_ns = 500 * 1000
                /\ sg_policy.down_rate_delay_ns = 20000 * 1000
                /\ sg_policy.min_rate_limit_ns = 500 * 1000)
  /\ [][IsStore(ev') /\ ev'.attr \in RateLimitAttrs
          => /\ ev'.ret = Len(ev'.text) /\ ev'.ret > 0
             /\ tunables' = tunables
             /\ sg_policy' = sg_policy]_vars

\* C11, its case: a well-formed value other than the window has been written
\* to a window of a started policy whose driver has transition delays.
C11_Witness ==
  /\ IsStore(ev) /\ ev.attr \in RateLimitAttrs
  /\ ~kstrtouint(ev.text).err
  /\ kstrtouint(ev.text).val = 750
  /\ gov.started
  /\ policy.up_transition_delay_us # 0
  /\ policy.up_transition_delay_us # tunables.up_rate_limit_us

\* C12 as stated: a write of a malformed text to any of the three tunables
\* returns an error and changes neither the tunables nor the policy's delays.
C12_AsStated ==
  [][IsStore(ev') /\ Malformed(ev'.attr, ev'.text)
       => /\ ev'.ret < 0
          /\ tunables' = tunables
          /\ sg_policy' = sg_policy]_vars

\* C12 amended: a write of a malformed text changes neither the tunables nor
\* the policy's delays; it returns -EINVAL for iowait_boost_enable, and the
\* count, as every write does, for up_rate_limit_us and down_rate_limit_us,
\* whose handlers never look at the text.
C12_Malformed ==
  [][IsStore(ev') /\ Malformed(ev'.attr, ev'.text)
       => /\ tunables' = tunables
          /\ sg_policy' = sg_policy
          /\ ev'.attr = "iowait_boost_enable" => ev'.ret = -EINVAL
          /\ ev'.attr \in RateLimitAttrs => ev'.ret = Len(ev'.text)]_vars

\* C12, its case: a malformed text has been written to iowait_boost_enable
\* while the boost was enabled.
C12_Witness ==
  /\ IsStore(ev) /\ ev.attr = "iowait_boost_enable"
  /\ Malformed(ev.attr, ev.text)
  /\ ev.ret < 0
  /\ tunables.iowait_boost_enable

Reverse(s) == [i \in 1..Len(s) |-> s[Len(s) + 1 - i]]

\* Whether the failing call of the latest algov_init was reached: the two
\* kthread calls are made only without fast switch.
FailReached ==
  /\ ev.fail # "none"
  /\ ev.ret # -EBUSY
  /\ ev.fail \in {"kthread_create", "setscheduler"}
       => ~policy.fast_switch_enabled

\* C13: when a call of algov_init fails, algov_init returns an error, and
\* after an algov_init that returned an error (other than -EBUSY, which
\* leaves the governor already there alone) governor_data is NULL,
\* global_tunables does not point at freed tunables, no kthread is left
\* created or running, nothing is held, and what was acquired has been
\* released in the reverse order.
C13_NoPartialState ==
  ev.op = "init" =>
    /\ FailReached => ev.ret < 0
    /\ (ev.ret < 0 /\ ev.ret # -EBUSY)
         => /\ ~gov.governor_data
            /\ ~(gov.global_tunables /\ "tunables" \notin gov.held)
            /\ gov.thread \notin {"created", "running"}
            /\ gov.held = {}
            /\ gov.released = Reverse(gov.created)

\* C13, its case: the registration of the tunables failed after the policy
\* data, the kthread, the tunables and the kobject had been set up.
C13_Witness ==
  /\ ev.op = "init" /\ ev.fail = "kobject_add" /\ ev.ret < 0
  /\ gov.created = <<"sg_policy", "kthread", "tunables", "kobject">>
  /\ gov.thread = "stopped"

\* Whether a recorded update caused an actuation call: the driver's fast
\* switch in fast mode, the irq work that wakes the worker in deferred mode.
Actuated(h) ==
  IF policy.fast_switch_enabled THEN h.accepted ELSE h.queued

ScenarioUtils == <<100, 800, 100>>

\* Whether the first three updates after start are those of the scenario.
ScenarioRun ==
  /\ ~policy_is_shared
  /\ Len(hist) >= 3
  /\ \A i \in 1..3 :
       /\ hist[i].time = ScenarioTimes[i]
       /\ hist[i].util = ScenarioUtils[i]
       /\ hist[i].max = 1024

\* C14: when the first three updates of a freshly started single-cpu policy
\* carry utilizations 100, 800 and 100 of capacity 1024 at 0, 100 us and
\* 100.05 us, the policy's up delay is 500 us and its down delay 20000 us,
\* the second and the third update cause no actuation call and leave
\* next_freq as the first left it, so that at most one call is caused in all.
C14_Scenario ==
  ScenarioRun =>
    /\ sg_policy.up_rate_delay_ns = 500 * 1000
    /\ sg_policy.down_rate_delay_ns = 20000 * 1000
    /\ ~Actuated(hist[2]) /\ ~Actuated(hist[3])
    /\ hist[2].next_freq = hist[1].next_freq
    /\ hist[3].next_freq = hist[1].next_freq
    /\ Cardinality({i \in 1..3 : Actuated(hist[i])}) <= 1

\* C14, its case: the three updates of the scenario have just run.
C14_Witness ==
  /\ ScenarioRun
  /\ Len(hist) = 3
  /\ now = ScenarioTimes[3]
  /\ IsUpdate(ev)

\* Whether an update now gets past the returns that come before the gate's
\* test of need_freq_update and of the time: a single-cpu policy returns while
\* work is in progress, a fast-switch policy when this processor cannot
\* update it.
PastEarlyReturns(e) ==
  /\ policy_is_shared \/ ~sg_policy.work_in_progress
  /\ policy.fast_switch_enabled => e.can_update

\* Whether the rate limiter refuses candidate f now.
RateLimited(f) ==
  \/ f > sg_policy.next_freq /\ SinceLastChange < sg_policy.up_rate_delay_ns
  \/ f < sg_policy.next_freq /\ SinceLastChange < sg_policy.down_rate_delay_ns

\* C15: algov_limits sets need_freq_update, and only an update that reaches
\* get_next_freq clears it.  While it is set, an update that gets past the
\* early returns is evaluated however little time has passed since the last
\* change, and one that reaches get_next_freq does not take the
\* short-circuit: it clears the flag and stores the raw frequency it
\* computed in the cache (which the rate limiter or the busy hold may then
\* reset to 0); on a shared policy its candidate is that raw frequency
\* resolved.
C15_ForcedRefresh ==
  [][/\ ev'.op = "limits" => sg_policy'.need_freq_update
     /\ ~sg_policy.need_freq_update /\ sg_policy'.need_freq_update
          => ev'.op = "limits"
     /\ sg_policy.need_freq_update /\ ~sg_policy'.need_freq_update
          => IsUpdate(ev') /\ ev'.selected
     /\ IsUpdate(ev') /\ sg_policy.need_freq_update
          => /\ ev'.evaluated = PastEarlyReturns(ev')
             /\ ev'.selected
                  => LET raw == raw_freq(policy, last_sel'[1], last_sel'[2],
                                         FALSE)
                     IN /\ ~ev'.hit
                        /\ ~sg_policy'.need_freq_update
                        /\ sg_policy'.cached_raw_freq \in {raw, 0}
                        /\ policy_is_shared
                             => ev'.next_f
                                  = cpufreq_driver_resolve_freq(policy, raw)]_vars

\* C15, its case: an update reached get_next_freq less than
\* min_rate_limit_ns after the last change, which only need_freq_update
\* allows, and its candidate, resolved afresh, is next_freq.
C15_Witness ==
  /\ IsUpdate(ev) /\ ev.selected /\ ~ev.hit
  /\ sg_policy.last_freq_update_time > 0
  /\ SinceLastChange < sg_policy.min_rate_limit_ns
  /\ ~sg_policy.need_freq_update
  /\ ev.change = "none"
  /\ ev.next_f = sg_policy.next_freq
  /\ sg_policy.cached_raw_freq # 0

C17_AsStated ==
  [][/\ IsUpdate(ev') /\ ev'.evaluated
     /\ ev'.next_f > sg_policy.next_freq
     /\ ~RateLimited(ev'.next_f)
     => sg_policy'.next_freq = (sg_policy.next_freq + ev'.next_f) \div 2]_vars

\* C17, its case: an update has raised a next_freq that was not 0 to its
\* candidate.
C17_Witness ==
  /\ IsUpdate(ev) /\ ev.change = "raise"
  /\ sg_policy.next_freq = ev.next_f
  /\ ev.next_f > cpuinfo_min_freq

\* C18 as stated: a candidate below next_freq that the rate limiter does not
\* refuse becomes next_freq, and the update's time the time of the last
\* change.
C18_AsStated ==
  [][/\ IsUpdate(ev') /\ ev'.evaluated
     /\ ev'.next_f < sg_policy.next_freq
     /\ ~RateLimited(ev'.next_f)
     => /\ sg_policy'.next_freq = ev'.next_f
        /\ sg_policy'.last_freq_update_time = now]_vars

\* C18, its case: an update has lowered next_freq to a value above its
\* candidate.
C18_Witness ==
  /\ IsUpdate(ev) /\ ev.change = "lower"
  /\ sg_policy.next_freq > ev.next_f
  /\ sg_policy.last_freq_update_time = now

\* Whether an update leaves alone what the gate protects.
GateFrame ==
  /\ sg_policy'.next_freq = sg_policy.next_freq
  /\ sg_policy'.last_freq_update_time = sg_policy.last_freq_update_time
  /\ sg_policy'.cached_raw_freq = sg_policy.cached_raw_freq
  /\ sg_policy'.work_in_progress = sg_policy.work_in_progress
  /\ irq_work' = irq_work

\* C19 as stated: with need_freq_update clear and less than
\* min_rate_limit_ns since the last change an update is not evaluated and
\* leaves next_freq, last_freq_update_time, cached_raw_freq and
\* work_in_progress alone and queues no irq work, whatever its flags;
\* otherwise it is evaluated.
C19_AsStated ==
  [][IsUpdate(ev') =>
       IF /\ ~sg_policy.need_freq_update
          /\ SinceLastChange < sg_policy.min_rate_limit_ns
       THEN ~ev'.evaluated /\ GateFrame
       ELSE ev'.evaluated]_vars

\* C19 amended: as stated for the first half; otherwise the update is
\* evaluated if and only if it gets past the early returns, and when it does
\* not it leaves the same fields alone.
C19_Gate ==
  [][IsUpdate(ev') =>
       IF /\ ~sg_policy.need_freq_update
          /\ SinceLastChange < sg_policy.min_rate_limit_ns
       THEN ~ev'.evaluated /\ GateFrame
       ELSE /\ ev'.evaluated = PastEarlyReturns(ev')
            /\ ~ev'.evaluated => GateFrame]_vars

\* C19, its case: an update carrying the deadline-class flag was held back
\* by the gate after a change of next_freq.
C19_Witness ==
  /\ IsUpdate(ev) /\ "DL" \in ev.flags /\ ~ev.evaluated
  /\ ~sg_policy.need_freq_update
  /\ sg_policy.last_freq_update_time > 0
  /\ SinceLastChange < sg_policy.min_rate_limit_ns
  /\ sg_policy.next_freq < cpuinfo_max_freq

\* The boost level an update carrying the io-wait flag is to leave, from the
\* processor's data before it: a boost last updated more than a tick ago
\* counts as zero and not pending; a pending boost stays; otherwise it
\* doubles up to iowait_boost_max, or starts at policy->min.
BoostAfterFlag(cpu, time) ==
  LET stale == cpu.iowait_boost # 0 /\ time - cpu.last_update > TICK_NSEC
      level == IF stale THEN 0 ELSE cpu.iowait_boost
      pending == IF stale THEN FALSE ELSE cpu.iowait_boost_pending
  IN IF pending THEN level
     ELSE IF level = 0 THEN policy.min
     ELSE IF 2 * level > cpu.iowait_boost_max THEN cpu.iowait_boost_max
     ELSE 2 * level

\* C20 as stated: an update carrying the io-wait flag while
\* iowait_boost_enable is set leaves its processor's boost at that level,
\* and pending unless the same update got past the gate, where the booster
\* consumes the mark.
C20_AsStated ==
  [][IsUpdate(ev') /\ "IOWAIT" \in ev'.flags /\ tunables.iowait_boost_enable
       => /\ sg_cpu'[ev'.cpu].iowait_boost
               = BoostAfterFlag(sg_cpu[ev'.cpu], now)
          /\ ~ev'.evaluated => sg_cpu'[ev'.cpu].iowait_boost_pending]_vars

\* C20, its case: on a single-cpu policy an update carrying the io-wait flag
\* has run with iowait_boost_enable set.
C20_Witness ==
  /\ ~policy_is_shared
  /\ IsUpdate(ev) /\ "IOWAIT" \in ev.flags
  /\ tunables.iowait_boost_enable
  /\ sg_cpu[ev.cpu].iowait_boost = 0

\* Whether an update called algov_next_freq_shared: it got past the gate on a
\* shared policy and did not carry the deadline-class flag.
IsScan(e) ==
  IsUpdate(e) /\ policy_is_shared /\ e.evaluated /\ "DL" \notin e.flags

\* Whether member j is within the staleness window at the evaluation running
\* now; the calling processor's last_update is the evaluation's time.
Fresh(cpus, j) == now - cpus[j].last_update <= stale_ns

\* Whether the scan reaches member j: no member before it is fresh and
\* deadline-class.
Scanned(cpus, j) ==
  \A i \in policy.cpus : i < j => ~(Fresh(cpus, i) /\ "DL" \in cpus[i].flags)

\* The fresh members' pairs in scan order, each followed by the member's
\* boost pair when its boost is not zero.
RECURSIVE FreshPairs(_, _)
FreshPairs(cpus, j) ==
  IF j >= Cardinality(CPUS) THEN <<>>
  ELSE IF j \notin policy.cpus \/ ~Fresh(cpus, j) THEN FreshPairs(cpus, j + 1)
  ELSE <<(<<cpus[j].util, cpus[j].max>>)>>
       \o (IF cpus[j].iowait_boost # 0
           THEN <<(<<cpus[j].iowait_boost, cpus[j].iowait_boost_max>>)>>
           ELSE <<>>)
       \o FreshPairs(cpus, j + 1)

\* What the fresh members contribute to an evaluation: the maximum frequency
\* without the selector exactly when one of them is deadline-class, and
\* otherwise the pair of maximum ratio among (0, 1), their pairs and their
\* boost pairs.
FreshOnly ==
  /\ ev'.selected
       = ~(\E j \in policy.cpus :
             Fresh(sg_cpu', j) /\ "DL" \in sg_cpu'[j].flags)
  /\ ~ev'.selected => ev'.next_f = cpuinfo_max_freq
  /\ ev'.selected
       => last_sel' = FirstMax(<<(<<0, 1>>)>> \o FreshPairs(sg_cpu', 0))

\* C21 as stated: in an evaluation over a shared policy every stale member
\* is left with no boost and not pending, its busy classifier is not
\* consulted, and the outcome is that of the fresh members alone.
C21_AsStated ==
  [][IsScan(ev') =>
       /\ \A j \in policy.cpus :
            ~Fresh(sg_cpu', j)
              => /\ sg_cpu'[j].iowait_boost = 0
                 /\ ~sg_cpu'[j].iowait_boost_pending
                 /\ sg_cpu'[j].saved_idle_calls = sg_cpu[j].saved_idle_calls
       /\ FreshOnly]_vars

\* C21 amended: as stated for the stale members the scan reaches; a stale
\* member that comes after a fresh deadline-class member in scan order is
\* left as it was, boost included.
C21_Stale ==
  [][IsScan(ev') =>
       /\ \A j \in policy.cpus :
            ~Fresh(sg_cpu', j)
              => IF Scanned(sg_cpu', j)
                 THEN sg_cpu'[j] = [sg_cpu[j] EXCEPT
                                      !.iowait_boost = 0,
                                      !.iowait_boost_pending = FALSE]
                 ELSE sg_cpu'[j] = sg_cpu[j]
       /\ FreshOnly]_vars

\* C21, its case: an evaluation reached the selector although a stale member
\* is deadline-class, and cleared the boost a stale member had got from its
\* latest update carrying the io-wait flag.
C21_Witness ==
  /\ IsScan(ev) /\ ev.selected
  /\ \E j \in policy.cpus : ~Fresh(sg_cpu, j) /\ "DL" \in sg_cpu[j].flags
  /\ \E j \in policy.cpus :
       /\ ~Fresh(sg_cpu, j)
       /\ decay[j].level # 0
       /\ sg_cpu[j].iowait_boost = 0
  /\ last_sel # <<0, 1>>

\* C22 as stated: an evaluation over a shared policy leaves saved_idle_calls
\* and previous_util of every member other than the calling processor as
\* they were.
C22_AsStated ==
  [][IsScan(ev') =>
       \A j \in policy.cpus \ {ev'.cpu} :
         /\ sg_cpu'[j].saved_idle_calls = sg_cpu[j].saved_idle_calls
         /\ sg_cpu'[j].previous_util = sg_cpu[j].previous_util]_vars

\* C22, its case: an evaluation called by one processor has reached the
\* selector after scanning another member that is within the staleness
\* window.
C22_Witness ==
  /\ IsScan(ev) /\ ev.selected
  /\ \E j \in policy.cpus \ {ev.cpu} :
       /\ Fresh(sg_cpu, j)
       /\ sg_cpu[j].last_update > 0

\* C23: while the policy data exists (from algov_init to algov_exit, started
\* or not, whatever was written to the sysfs files and whether or not saved
\* tunables were restored) min_rate_limit_ns is the smaller of
\* up_rate_delay_ns and down_rate_delay_ns, and neither delay is negative.
C23_MinRateLimit ==
  gov.governor_data
    => /\ sg_policy.min_rate_limit_ns
            = (IF sg_policy.up_rate_delay_ns < sg_policy.down_rate_delay_ns
               THEN sg_policy.up_rate_delay_ns
               ELSE sg_policy.down_rate_delay_ns)
       /\ sg_policy.up_rate_delay_ns >= 0
       /\ sg_policy.down_rate_delay_ns >= 0

\* C23, its case: the policy is started with tunables restored from an
\* earlier exit, a well-formed value has just been written to one of the
\* windows, and the delays differ.
C23_Witness ==
  /\ gov.started /\ gov.cached.valid
  /\ IsStore(ev) /\ ev.attr \in RateLimitAttrs
  /\ ~Malformed(ev.attr, ev.text)
  /\ sg_policy.min_rate_limit_ns > 0
  /\ sg_policy.up_rate_delay_ns # sg_policy.down_rate_delay_ns

\* C24 as stated: on a fast-switch policy an update whose candidate the rate
\* limiter accepts has the driver apply next_freq within the call:
\* cpufreq_driver_fast_switch returns the frequency it set, which becomes
\* policy->cur, and neither the irq work nor work_in_progress is touched.
C24_AsStated ==
  [][IsUpdate(ev') /\ policy.fast_switch_enabled /\ ev'.change # "none"
       => /\ cpufreq_driver_fast_switch(policy, sg_policy'.next_freq) # 0
          /\ policy'.cur
               = cpufreq_driver_fast_switch(policy, sg_policy'.next_freq)
          /\ irq_work' = irq_work
          /\ sg_policy'.work_in_progress = sg_policy.work_in_progress]_vars

\* C24, its case: on a fast-switch policy an update has just raised
\* next_freq above policy->cur.
C24_Witness ==
  /\ policy.fast_switch_enabled
  /\ IsUpdate(ev) /\ ev.change = "raise"
  /\ sg_policy.next_freq > policy.cur
  /\ ~irq_work /\ ~sg_policy.work_in_progress

\* C25: in deferred mode, with the irq work and the worker scheduled fairly,
\* an update whose candidate is accepted leaves work_in_progress set; while
\* it is set the worker eventually reads next_freq, as it is then, and clears
\* it; and the frequency the worker has read, which it keeps until it is
\* idle again, is eventually the one passed to __cpufreq_driver_target.  The
\* irq work is raised only by an update that sets work_in_progress from
\* clear, and never while it is still raised.
C25_EventuallyApplied ==
  /\ [][/\ (IsUpdate(ev') /\ ev'.change # "none")
            => sg_policy'.work_in_progress
        /\ (irq_work' /\ IsUpdate(ev') /\ sg_policy'.work_in_progress
              /\ ~sg_policy.work_in_progress)
            => ~irq_work
        /\ (~irq_work /\ irq_work')
            => /\ IsUpdate(ev') /\ ev'.change # "none"
               /\ ~sg_policy.work_in_progress
               /\ sg_policy'.work_in_progress]_vars
  /\ sg_policy.work_in_progress
       ~> (/\ ~sg_policy.work_in_progress
           /\ worker.pc = "mutex"
           /\ worker.freq = sg_policy.next_freq)
  /\ [][worker.pc # "idle" => worker'.freq = worker.freq]_vars
  /\ (worker.pc = "mutex") ~> (worker.pc = "idle" /\ applied = worker.freq)

\* C25, its case: while the driver call for one acceptance is under way, a
\* later acceptance has changed next_freq and raised the irq work again.
C25_Witness ==
  /\ ~policy.fast_switch_enabled
  /\ worker.pc = "target"
  /\ sg_policy.work_in_progress
  /\ irq_work
  /\ worker.freq # sg_policy.next_freq
  /\ IsUpdate(ev) /\ ev.change # "none"

\* What get_next_freq returned to an update that reached it.
SelectorResult ==
  IF ev'.hit THEN sg_policy.next_freq
  ELSE cpufreq_driver_resolve_freq(
         policy, raw_freq(policy, last_sel'[1], last_sel'[2], ev'.busy))

\* C26: on a single-cpu policy, when the update took the processor for busy
\* and get_next_freq returned less than next_freq (which is not UINT_MAX),
\* the candidate is next_freq and cached_raw_freq becomes 0; next_freq and
\* last_freq_update_time stay, the rate limiter accepts nothing, no irq work
\* is queued and policy->cur is not changed.
C26_BusyHold ==
  [][/\ IsUpdate(ev') /\ ~policy_is_shared
     /\ ev'.selected /\ ev'.busy
     /\ SelectorResult < sg_policy.next_freq
     /\ sg_policy.next_freq # UINT_MAX
     => /\ ev'.next_f = sg_policy.next_freq
        /\ sg_policy'.cached_raw_freq = 0
        /\ sg_policy'.next_freq = sg_policy.next_freq
        /\ sg_policy'.last_freq_update_time
             = sg_policy.last_freq_update_time
        /\ ev'.change = "none"
        /\ irq_work' = irq_work
        /\ sg_policy'.work_in_progress = sg_policy.work_in_progress
        /\ policy' = policy]_vars

\* C26, its case: past the down window, an update of a busy processor was
\* held at next_freq although its utilization alone gives less.
C26_Witness ==
  /\ IsUpdate(ev) /\ ~policy_is_shared
  /\ ev.selected /\ ev.busy /\ ~ev.hit
  /\ cpufreq_driver_resolve_freq(
       policy, raw_freq(policy, last_sel[1], last_sel[2], TRUE))
       < sg_policy.next_freq
  /\ ev.next_f = sg_policy.next_freq
  /\ sg_policy.cached_raw_freq = 0
  /\ SinceLastChange >= sg_policy.down_rate_delay_ns

\* C27 as stated: after algov_init or algov_exit has returned,
\* global_tunables_lock is not held, and the call has not unlocked it on a
\* path that did not hold it.
C27_AsStated ==
  ev.op \in {"init", "exit"} => ~gov.lock_held /\ ~gov.bad_unlock

\* C27, its case: algov_init has returned the error of a failed
\* kthread_create, a call it makes before it locks global_tunables_lock.
C27_Witness ==
  /\ ev.op = "init" /\ ev.fail = "kthread_create" /\ ev.ret = -ENOMEM
  /\ ~policy.fast_switch_enabled
  /\ ~gov.lock_held
  /\ gov.released = <<"sg_policy">>

====
